---- MODULE Spec2Model ----
(***************************************************************************)
(* State-machine model of the item guessing bot.                           *)
(*                                                                         *)
(*   src/guessing_bot_final_en.py  the persistent variant (7 hints,        *)
(*                                 cooldown, game_state.json)              *)
(*   src/guessing_bot.py           the first variant (5 hints, no          *)
(*                                 cooldown, only user_wins.json)          *)
(*                                                                         *)
(* Every command handler is a coroutine: it runs without interruption up   *)
(* to an await that sends a message, and other handlers and the timer may  *)
(* run while it is suspended there.  A handler whose code after an await   *)
(* still changes the game state is modelled as two actions, the part       *)
(* before the await and the part after it, with the suspended coroutine    *)
(* kept in inflight (commands) or timer_pending (the hint_timer loop).     *)
(*                                                                         *)
(* Time is counted in whole minutes.  Strings are sequences of one         *)
(* character strings, so that strip() and lower() are computed.            *)
(***************************************************************************)
EXTENDS Integers, Sequences, FiniteSets, TLC

(***************************************************************************)
(* Program constants                                                       *)
(***************************************************************************)
REQUIRED_HINTS == 7
GUESS_COOLDOWN_MINUTES == 30
DEFAULT_HINT_TIMING_MINUTES == 60
MIN_HINT_TIMING == 1
MAX_HINT_TIMING == 60
BASIC_REQUIRED_HINTS == 5
BASIC_DEFAULT_HINT_TIMING == 5

(***************************************************************************)
(* Bounds of the model                                                     *)
(***************************************************************************)
\* The clock of the concurrent specifications runs over 0..MaxTime.
MaxTime == 2
\* A user wins at most MaxWins rounds.
MaxWins == 2
\* At most MaxInflight command handlers are suspended at an await at once.
MaxInflight == 1
\* The most wins of a user in the ledger when the role is selected.
MaxTierWins == 101

(***************************************************************************)
(* Python values                                                           *)
(***************************************************************************)
\* None, and a value that is not None.
None == <<>>
Some(x) == <<x>>

\* str.isspace for one character.
IsSpace(c) == c = " "

\* str.lower for one character over the alphabet of the model.
LowerChar(c) ==
    CASE c = "A" -> "a"
      [] c = "B" -> "b"
      [] OTHER -> c

\* str.lower().
Lower(s) == [i \in 1..Len(s) |-> LowerChar(s[i])]

RECURSIVE LStrip(_)
LStrip(s) == IF s # <<>> /\ IsSpace(Head(s)) THEN LStrip(Tail(s)) ELSE s

RECURSIVE RStrip(_)
RStrip(s) ==
    IF s # <<>> /\ IsSpace(s[Len(s)]) THEN RStrip(SubSeq(s, 1, Len(s) - 1)) ELSE s

\* str.strip(): leading and trailing whitespace removed.
Strip(s) == RStrip(LStrip(s))

\* The truth value Python gives an optional string: None and "" are false.
Truthy(v) == v # None /\ v[1] # <<>>

\* DictSet that keeps no other key of d.
DictSetAlone(d, k, v) == [x \in {k} |-> v]

\* dict[k] = v
DictSet(d, k, v) == [x \in DOMAIN d \cup {k} |-> IF x = k THEN v ELSE d[x]]

\* dict.get(k, default)
DictGet(d, k, default) == IF k \in DOMAIN d THEN d[k] ELSE default

(***************************************************************************)
(* JSON: object keys are strings.  str() and int() over the integers 0..9. *)
(***************************************************************************)
Digits == <<"0", "1", "2", "3", "4", "5", "6", "7", "8", "9">>

\* str(k) as json.dump writes an integer key.
Str(k) == Digits[k + 1]

\* Whether int(s) returns; otherwise it raises ValueError.
IntParses(s) == \E k \in 0..9 : Digits[k + 1] = s

\* int(s)
ToInt(s) == CHOOSE k \in 0..9 : Digits[k + 1] = s

\* {str(k): v for k, v in d.items()}, the keys json.dump writes.
StrKeys(d) ==
    [s \in {Str(k) : k \in DOMAIN d} |-> d[CHOOSE k \in DOMAIN d : Str(k) = s]]

\* {int(k): v for k, v in o.items()} when no key raises.
IntKeys(o) ==
    [k \in {ToInt(s) : s \in DOMAIN o} |-> o[CHOOSE s \in DOMAIN o : ToInt(s) = k]]

\* Whether the comprehension above raises ValueError.
IntKeysRaise(o) == \E s \in DOMAIN o : ~IntParses(s)

\* datetime.isoformat(): the ISO 8601 string of a time.
IsoFormat(t) == [fmt |-> "iso", t |-> t]

\* Whether datetime.fromisoformat(s) returns; otherwise it raises ValueError.
IsoParses(s) == s.fmt = "iso"

\* FromIso that reads the date and drops the time of day.
FromIsoDate(s) == 0

\* datetime.fromisoformat(s)
FromIso(s) == s.t

(***************************************************************************)
(* Files                                                                   *)
(***************************************************************************)
\* os.path.exists() is false.
MissingFile == [kind |-> "missing"]
\* The file exists and json.load raises JSONDecodeError.
UnparseableFile == [kind |-> "unparseable"]
\* The file holds the JSON document data.
JsonFile(data) == [kind |-> "json", data |-> data]

\* The two programs of the repository.
FinalEn == "guessing_bot_final_en.py"
Basic == "guessing_bot.py"

VARIABLES
    correct_answer,          \* None or Some(string)
    current_hints_storage,   \* dict: hint number -> text
    current_hints_revealed,  \* list of [hint_number, text, channel_id]
    is_game_active,
    hint_timing_minutes,
    last_hint_reveal_time,   \* None or Some(minute)
    user_wins,               \* dict: user id -> wins
    last_guess_time,         \* dict: user id -> minute
    wins_file,               \* user_wins.json
    state_file,              \* game_state.json
    timer,                   \* the hint_timer loop: "stopped", "running", "stopping"
    timer_pending,           \* None or Some(the iteration suspended at channel.send)
    inflight,                \* suspended command handlers: task -> how many
    now,                     \* datetime.now(), in minutes
    reply,                   \* what the last handler step answered
    program,                 \* which of the two source files runs
    member_roles             \* member.roles in the guild: user id -> role ids

vars ==
    <<correct_answer, current_hints_storage, current_hints_revealed, is_game_active,
      hint_timing_minutes, last_hint_reveal_time, user_wins, last_guess_time,
      wins_file, state_file, timer, timer_pending, inflight, now, reply, program, member_roles>>

game_vars ==
    <<correct_answer, current_hints_storage, current_hints_revealed, is_game_active,
      hint_timing_minutes, last_hint_reveal_time>>

(***************************************************************************)
(* Persistence, guessing_bot_final_en.py                                   *)
(***************************************************************************)
\* save_user_wins(): what json.dump writes to user_wins.json.
save_user_wins(wins) == JsonFile(StrKeys(wins))

\* load_user_wins without "global user_wins": the ledger read is bound to a
\* local and the ledger of the module stays as it was.
load_user_wins_local(file, cur) == [raised |-> FALSE, user_wins |-> cur]

\* load_user_wins(): the ledger after the call and whether the call raised.
\* cur is user_wins before the call.
load_user_wins(file, cur) ==
    CASE file.kind = "missing" -> [raised |-> FALSE, user_wins |-> <<>>]
      [] file.kind = "unparseable" -> [raised |-> FALSE, user_wins |-> <<>>]
      [] OTHER ->
            IF IntKeysRaise(file.data)
            THEN [raised |-> TRUE, user_wins |-> cur]
            ELSE [raised |-> FALSE, user_wins |-> IntKeys(file.data)]

\* save_game_state(): what json.dump writes to game_state.json.
save_game_state(active, answer, storage, revealed, last, timing) ==
    JsonFile([is_game_active |-> active,
              correct_answer |-> answer,
              current_hints_storage |-> StrKeys(storage),
              current_hints_revealed |-> revealed,
              last_hint_reveal_time |->
                  IF last # None THEN Some(IsoFormat(last[1])) ELSE None,
              hint_timing_minutes |-> timing])

\* The game variables as one record.
GameState(active, answer, storage, revealed, last, timing) ==
    [is_game_active |-> active, correct_answer |-> answer,
     current_hints_storage |-> storage, current_hints_revealed |-> revealed,
     last_hint_reveal_time |-> last, hint_timing_minutes |-> timing]

\* load_game_state(): the game variables after the call and whether the call
\* raised.  cur holds the game variables before the call.  The assignments
\* run in the order of the source, and an exception leaves the later ones
\* undone.
load_game_state(file, cur) ==
    CASE file.kind = "missing" -> [raised |-> FALSE, state |-> cur]
      [] file.kind = "unparseable" ->
            [raised |-> FALSE, state |-> [cur EXCEPT !.is_game_active = FALSE]]
      [] OTHER ->
            LET state == file.data
                s1 == [cur EXCEPT
                         !.is_game_active = DictGet(state, "is_game_active", FALSE),
                         !.correct_answer = DictGet(state, "correct_answer", None)]
                keys == DictGet(state, "current_hints_storage", <<>>)
                s2 == [s1 EXCEPT
                         !.current_hints_storage = IntKeys(keys),
                         !.current_hints_revealed =
                             DictGet(state, "current_hints_revealed", <<>>),
                         !.hint_timing_minutes =
                             DictGet(state, "hint_timing_minutes",
                                     DEFAULT_HINT_TIMING_MINUTES)]
                last_time_str == DictGet(state, "last_hint_reveal_time", None)
            IN  IF IntKeysRaise(keys)
                THEN [raised |-> TRUE, state |-> s1]
                ELSE IF last_time_str = None
                THEN [raised |-> FALSE,
                      state |-> [s2 EXCEPT !.last_hint_reveal_time = None]]
                ELSE IF ~IsoParses(last_time_str[1])
                THEN [raised |-> TRUE, state |-> s2]
                ELSE [raised |-> FALSE,
                      state |-> [s2 EXCEPT !.last_hint_reveal_time =
                                               Some(FromIso(last_time_str[1]))]]

(***************************************************************************)
(* The hint_timer loop (discord.ext.tasks.Loop)                            *)
(***************************************************************************)
\* hint_timer.is_running()
TimerIsRunning(t) == t # "stopped"

\* if not hint_timer.is_running(): hint_timer.start()
TimerStart(t) == IF TimerIsRunning(t) THEN t ELSE "running"

\* if hint_timer.is_running(): hint_timer.stop().  stop() lets the loop finish
\* its current or next iteration and then end.
TimerStop(t) == IF TimerIsRunning(t) THEN "stopping" ELSE t

\* The loop after one iteration of hint_timer has returned.
TimerAfterIteration(t) == IF t = "stopping" THEN "stopped" ELSE t

(***************************************************************************)
(* Suspended command handlers                                              *)
(***************************************************************************)
Task(op, user, number, text) ==
    [op |-> op, user |-> user, next_hint_number |-> number, hint_text |-> text]

RECURSIVE BagSum(_, _)
BagSum(b, S) ==
    IF S = {} THEN 0
    ELSE LET e == CHOOSE x \in S : TRUE IN b[e] + BagSum(b, S \ {e})

BagSize(b) == BagSum(b, DOMAIN b)

BagAdd(b, e) ==
    [x \in DOMAIN b \cup {e} |->
        IF x = e THEN (IF e \in DOMAIN b THEN b[e] + 1 ELSE 1) ELSE b[x]]

BagRemove(b, e) ==
    IF b[e] > 1 THEN [b EXCEPT ![e] = @ - 1]
    ELSE IF DOMAIN b = {e} THEN <<>>
    ELSE [x \in DOMAIN b \ {e} |-> b[x]]

\* Another handler may be suspended.
CanSuspend == BagSize(inflight) < MaxInflight

\* Another !guess of user_id may be suspended: a user sends the next command
\* after the answer to the last, whatever the handlers of others are at.
CanSuspendGuess(user_id) ==
    BagSum(inflight, {task \in DOMAIN inflight : task.user = user_id}) < MaxInflight

(***************************************************************************)
(* Command handlers, guessing_bot_final_en.py                              *)
(***************************************************************************)
\* save_game_state() called at the end of a step: the file holds the game
\* variables as the step leaves them.
SaveGameState ==
    state_file' = save_game_state(is_game_active', correct_answer',
                                  current_hints_storage', current_hints_revealed',
                                  last_hint_reveal_time', hint_timing_minutes')

\* One entry of current_hints_revealed.
Revealed(number, text) == [hint_number |-> number, text |-> text]

\* !setitem <item_name>
set_item_name(item_name) ==
    IF is_game_active
    THEN /\ reply' = "setitem:locked"
         /\ UNCHANGED <<game_vars, user_wins, last_guess_time, wins_file, state_file,
                        timer, timer_pending, inflight, now, program, member_roles>>
    ELSE /\ correct_answer' = Some(Strip(item_name))
         /\ UNCHANGED <<current_hints_storage, current_hints_revealed, is_game_active,
                        hint_timing_minutes, last_hint_reveal_time>>
         /\ SaveGameState
         /\ reply' = "setitem:ok"
         /\ UNCHANGED <<user_wins, last_guess_time, wins_file, timer, timer_pending,
                        inflight, now, program, member_roles>>

\* HintNumberInRange from 0.
HintNumberFromZero(number) == 0 <= number /\ number <= REQUIRED_HINTS

\* "1 <= number <= REQUIRED_HINTS"
HintNumberInRange(number) == 1 <= number /\ number <= REQUIRED_HINTS

\* !sethint <number> <hint_text>
set_hint(number, hint_text) ==
    IF is_game_active
    THEN /\ reply' = "sethint:locked"
         /\ UNCHANGED <<game_vars, user_wins, last_guess_time, wins_file, state_file,
                        timer, timer_pending, inflight, now, program, member_roles>>
    ELSE IF ~HintNumberInRange(number)
    THEN /\ reply' = "sethint:range"
         /\ UNCHANGED <<game_vars, user_wins, last_guess_time, wins_file, state_file,
                        timer, timer_pending, inflight, now, program, member_roles>>
    ELSE /\ current_hints_storage' =
                DictSet(current_hints_storage, number, Strip(hint_text))
         /\ UNCHANGED <<correct_answer, current_hints_revealed, is_game_active,
                        hint_timing_minutes, last_hint_reveal_time>>
         /\ IF Cardinality(DOMAIN current_hints_storage') = REQUIRED_HINTS
            THEN SaveGameState /\ reply' = "sethint:all"
            ELSE UNCHANGED state_file /\ reply' = "sethint:ok"
         /\ UNCHANGED <<user_wins, last_guess_time, wins_file, timer, timer_pending,
                        inflight, now, program, member_roles>>

\* HintLines with the lines kept in the reverse order.
HintLinesReversed(lines) ==
    LET kept == SelectSeq(lines, LAMBDA l : Strip(l) # <<>>)
    IN  [i \in 1..Len(kept) |-> Strip(kept[Len(kept) + 1 - i])]

\* [line.strip() for line in hints_text.split('\n') if line.strip()], the
\* text given as its lines.
HintLines(lines) ==
    LET kept == SelectSeq(lines, LAMBDA l : Strip(l) # <<>>)
    IN  [i \in 1..Len(kept) |-> Strip(kept[i])]

\* !setallhints <hints_text>
set_all_hints(lines) ==
    LET hint_lines == HintLines(lines) IN
    IF is_game_active
    THEN /\ reply' = "setallhints:locked"
         /\ UNCHANGED <<game_vars, user_wins, last_guess_time, wins_file, state_file,
                        timer, timer_pending, inflight, now, program, member_roles>>
    ELSE IF Len(hint_lines) # REQUIRED_HINTS
    THEN /\ reply' = "setallhints:count"
         /\ UNCHANGED <<game_vars, user_wins, last_guess_time, wins_file, state_file,
                        timer, timer_pending, inflight, now, program, member_roles>>
    ELSE /\ current_hints_storage' = [i \in 1..Len(hint_lines) |-> hint_lines[i]]
         /\ UNCHANGED <<correct_answer, current_hints_revealed, is_game_active,
                        hint_timing_minutes, last_hint_reveal_time>>
         /\ SaveGameState
         /\ reply' = "setallhints:ok"
         /\ UNCHANGED <<user_wins, last_guess_time, wins_file, timer, timer_pending,
                        inflight, now, program, member_roles>>

\* "if minutes < 1 or minutes > 60"
HintTimingOutOfRange(minutes) ==
    minutes < MIN_HINT_TIMING \/ minutes > MAX_HINT_TIMING

\* !sethinttiming <minutes>
set_hint_timing(minutes) ==
    IF is_game_active
    THEN /\ reply' = "sethinttiming:locked"
         /\ UNCHANGED <<game_vars, user_wins, last_guess_time, wins_file, state_file,
                        timer, timer_pending, inflight, now, program, member_roles>>
    ELSE IF HintTimingOutOfRange(minutes)
    THEN /\ reply' = "sethinttiming:range"
         /\ UNCHANGED <<game_vars, user_wins, last_guess_time, wins_file, state_file,
                        timer, timer_pending, inflight, now, program, member_roles>>
    ELSE /\ hint_timing_minutes' = minutes
         /\ UNCHANGED <<correct_answer, current_hints_storage, current_hints_revealed,
                        is_game_active, last_hint_reveal_time>>
         /\ SaveGameState
         /\ reply' = "sethinttiming:ok"
         /\ UNCHANGED <<user_wins, last_guess_time, wins_file, timer, timer_pending,
                        inflight, now, program, member_roles>>

\* !stop
stop_game ==
    /\ is_game_active' = FALSE
    /\ correct_answer' = None
    /\ current_hints_revealed' = <<>>
    /\ current_hints_storage' = <<>>
    /\ last_hint_reveal_time' = None
    /\ timer' = TimerStop(timer)
    /\ UNCHANGED hint_timing_minutes
    /\ SaveGameState
    /\ reply' = "stop:ok"
    /\ UNCHANGED <<user_wins, last_guess_time, wins_file, timer_pending, inflight, now, program, member_roles>>

\* StartIncomplete without the count of the hints.
StartIncompleteItemOnly == ~Truthy(correct_answer)

\* "if not correct_answer or len(current_hints_storage) != REQUIRED_HINTS"
StartIncomplete ==
    \/ ~Truthy(correct_answer)
    \/ Cardinality(DOMAIN current_hints_storage) # REQUIRED_HINTS

\* StartRevealed without "current_hints_revealed = []".
StartRevealedNotEmptied ==
    Append(current_hints_revealed, Revealed(1, current_hints_storage[1]))

\* current_hints_revealed of a started round: emptied, then hint 1 appended.
StartRevealed == Append(<<>>, Revealed(1, current_hints_storage[1]))

\* !start.  channel is whether bot.get_channel(HINT_CHANNEL_ID) finds the
\* hint channel.  Without it the handler answers the caller and saves only
\* after that answer is sent: it is suspended as task "start".
start_game(channel) ==
    IF is_game_active
    THEN /\ reply' = "start:already"
         /\ UNCHANGED <<game_vars, user_wins, last_guess_time, wins_file, state_file,
                        timer, timer_pending, inflight, now, program, member_roles>>
    ELSE IF StartIncomplete
    THEN /\ reply' = "start:incomplete"
         /\ UNCHANGED <<game_vars, user_wins, last_guess_time, wins_file, state_file,
                        timer, timer_pending, inflight, now, program, member_roles>>
    ELSE IF 1 \notin DOMAIN current_hints_storage
    THEN \* current_hints_storage[1] raises KeyError
         /\ is_game_active' = TRUE
         /\ current_hints_revealed' = <<>>
         /\ reply' = "start:KeyError"
         /\ UNCHANGED <<correct_answer, current_hints_storage, hint_timing_minutes,
                        last_hint_reveal_time, user_wins, last_guess_time, wins_file,
                        state_file, timer, timer_pending, inflight, now, program, member_roles>>
    ELSE /\ last_hint_reveal_time' = Some(now)
         /\ timer' = TimerStart(timer)
         /\ UNCHANGED <<correct_answer, current_hints_storage, hint_timing_minutes>>
         /\ IF channel
            THEN /\ is_game_active' = TRUE
                 /\ current_hints_revealed' = StartRevealed
                 /\ SaveGameState
                 /\ reply' = "start:ok"
                 /\ UNCHANGED inflight
            ELSE /\ CanSuspend
                 /\ is_game_active' = FALSE
                 /\ current_hints_revealed' = <<>>
                 /\ inflight' = BagAdd(inflight, Task("start", 0, 0, <<>>))
                 /\ reply' = "start:nochannel"
                 /\ UNCHANGED state_file
         /\ UNCHANGED <<user_wins, last_guess_time, wins_file, timer_pending, now, program, member_roles>>

\* start_game after "await ctx.send(...)" when the channel was not found.
start_game_resume ==
    LET task == Task("start", 0, 0, <<>>) IN
    /\ task \in DOMAIN inflight
    /\ inflight' = BagRemove(inflight, task)
    /\ UNCHANGED game_vars
    /\ SaveGameState
    /\ reply' = "start:saved"
    /\ UNCHANGED <<user_wins, last_guess_time, wins_file, timer, timer_pending, now, program, member_roles>>

\* NoActiveGame rejecting only while no item is set.
NoActiveGameAndNoItem == ~is_game_active /\ correct_answer = None

\* "if not is_game_active:" at the top of !guess and !revealhint
NoActiveGame == ~is_game_active

\* !revealhint up to "await channel.send(ping_message)".
reveal_hint_manual(channel) ==
    LET next_hint_number == Len(current_hints_revealed) + 1 IN
    /\ UNCHANGED <<game_vars, user_wins, last_guess_time, wins_file, state_file,
                   timer, timer_pending, now, program, member_roles>>
    /\ IF NoActiveGame
       THEN reply' = "revealhint:noactive" /\ UNCHANGED inflight
       ELSE IF next_hint_number > REQUIRED_HINTS
       THEN reply' = "revealhint:all" /\ UNCHANGED inflight
       ELSE IF next_hint_number \notin DOMAIN current_hints_storage
       THEN reply' = "revealhint:unconfigured" /\ UNCHANGED inflight
       ELSE IF ~channel
       THEN reply' = "revealhint:nochannel" /\ UNCHANGED inflight
       ELSE /\ CanSuspend
            /\ inflight' =
                   BagAdd(inflight,
                          Task("revealhint", 0, next_hint_number,
                               current_hints_storage[next_hint_number]))
            /\ reply' = "revealhint:sending"

\* !revealhint after the hint message is sent.
reveal_hint_manual_resume(task) ==
    /\ task \in DOMAIN inflight
    /\ task.op = "revealhint"
    /\ inflight' = BagRemove(inflight, task)
    /\ current_hints_revealed' =
           Append(current_hints_revealed,
                  Revealed(task.next_hint_number, task.hint_text))
    /\ last_hint_reveal_time' = Some(now)
    /\ UNCHANGED <<correct_answer, current_hints_storage, is_game_active,
                   hint_timing_minutes>>
    /\ SaveGameState
    /\ reply' = "revealhint:ok"
    /\ UNCHANGED <<user_wins, last_guess_time, wins_file, timer, timer_pending, now, program, member_roles>>

\* CooldownActive with "<=" for "<".
CooldownActiveInclusive(user_id) ==
    /\ user_id \in DOMAIN last_guess_time
    /\ now - last_guess_time[user_id] <= GUESS_COOLDOWN_MINUTES

\* "Check cooldown": the user guessed less than the cooldown ago.
CooldownActive(user_id) ==
    /\ user_id \in DOMAIN last_guess_time
    /\ now - last_guess_time[user_id] < GUESS_COOLDOWN_MINUTES

\* GuessMatches without strip().
GuessMatchesUnstripped(guess) == Lower(guess) = Lower(correct_answer[1])

\* "if guess.strip().lower() == correct_answer.lower()"
GuessMatches(guess) == Lower(Strip(guess)) = Lower(correct_answer[1])

\* !guess <guess> by user_id up to the first await.  direct_message is
\* whether the command came in a direct message, where ctx.author is a User
\* and award_winner_roles raises AttributeError at member.guild.
guess_item(user_id, guess, direct_message) ==
    /\ DictGet(user_wins, user_id, 0) < MaxWins
    /\ UNCHANGED <<current_hints_storage, current_hints_revealed, correct_answer,
                   hint_timing_minutes, last_hint_reveal_time, state_file, timer,
                   timer_pending, now, program, member_roles>>
    /\ IF NoActiveGame
       THEN /\ reply' = "guess:noactive"
            /\ UNCHANGED <<is_game_active, user_wins, last_guess_time, wins_file,
                           inflight>>
       ELSE IF CooldownActive(user_id)
       THEN /\ reply' = "guess:cooldown"
            /\ UNCHANGED <<is_game_active, user_wins, last_guess_time, wins_file,
                           inflight>>
       ELSE /\ last_guess_time' = DictSet(last_guess_time, user_id, now)
            /\ IF ~Truthy(correct_answer)
               THEN /\ reply' = "guess:noanswer"
                    /\ UNCHANGED <<is_game_active, user_wins, wins_file, inflight>>
               ELSE IF GuessMatches(guess)
               THEN /\ is_game_active' = FALSE
                    /\ user_wins' =
                           DictSet(user_wins, user_id,
                                   DictGet(user_wins, user_id, 0) + 1)
                    /\ wins_file' = save_user_wins(user_wins')
                    /\ IF direct_message
                       THEN reply' = "guess:AttributeError" /\ UNCHANGED inflight
                       ELSE /\ CanSuspendGuess(user_id)
                            /\ inflight' =
                                   BagAdd(inflight, Task("guess", user_id, 0, <<>>))
                            /\ reply' = "guess:win"
               ELSE /\ reply' = "guess:incorrect"
                    /\ UNCHANGED <<is_game_active, user_wins, wins_file, inflight>>

\* !guess of a winner after the roles are awarded and the winner announced:
\* "4. Reset all game-specific state variables" and "5. Stop the hint timer
\* task and save".  guess_item does not declare current_hints_storage
\* global: "current_hints_storage = {}" binds a local of the handler and the
\* hints of the module stay as they are.
guess_item_resume(task) ==
    /\ task \in DOMAIN inflight
    /\ task.op = "guess"
    /\ inflight' = BagRemove(inflight, task)
    /\ correct_answer' = None
    /\ current_hints_revealed' = <<>>
    /\ last_hint_reveal_time' = None
    /\ timer' = TimerStop(timer)
    /\ UNCHANGED <<is_game_active, current_hints_storage, hint_timing_minutes>>
    /\ SaveGameState
    /\ reply' = "guess:reset"
    /\ UNCHANGED <<user_wins, last_guess_time, wins_file, timer_pending, now, program, member_roles>>

\* The await a command handler is suspended at raises (the message cannot be
\* sent): the rest of the handler does not run.
await_raises(task) ==
    /\ task \in DOMAIN inflight
    /\ inflight' = BagRemove(inflight, task)
    /\ reply' = "raised"
    /\ UNCHANGED <<game_vars, user_wins, last_guess_time, wins_file, state_file,
                   timer, timer_pending, now, program, member_roles>>

\* HintDue without the interval: due as soon as a hint was revealed.
HintDueAtOnce == now >= last_hint_reveal_time[1]

\* HintDue with ">" for ">=".
HintDueStrictly == now > last_hint_reveal_time[1] + hint_timing_minutes

\* "if now >= next_reveal_time"
HintDue == now >= last_hint_reveal_time[1] + hint_timing_minutes

\* HintTimerReturns without "not is_game_active".
HintTimerReturnsWhenUnset(ready) ==
    \/ ~ready
    \/ last_hint_reveal_time = None
    \/ current_hints_storage = <<>>

\* "if not bot.is_ready() or not is_game_active or not last_hint_reveal_time
\* or not current_hints_storage: return"
HintTimerReturns(ready) ==
    \/ ~ready
    \/ ~is_game_active
    \/ last_hint_reveal_time = None
    \/ current_hints_storage = <<>>

\* One iteration of the hint_timer loop up to "await channel.send(...)".
\* ready is bot.is_ready(); channel is whether the hint channel is found.
hint_timer(ready, channel) ==
    LET next_hint_number == Len(current_hints_revealed) + 1 IN
    /\ TimerIsRunning(timer)
    /\ timer_pending = None
    /\ UNCHANGED <<game_vars, user_wins, last_guess_time, wins_file, state_file,
                   inflight, now, program, member_roles>>
    /\ reply' = "tick"
    /\ IF HintTimerReturns(ready)
       THEN timer' = TimerAfterIteration(timer) /\ UNCHANGED timer_pending
       ELSE IF ~HintDue
       THEN timer' = TimerAfterIteration(timer) /\ UNCHANGED timer_pending
       ELSE IF next_hint_number \notin DOMAIN current_hints_storage
       THEN timer' = TimerAfterIteration(TimerStop(timer)) /\ UNCHANGED timer_pending
       ELSE IF ~channel
       THEN timer' = TimerAfterIteration(timer) /\ UNCHANGED timer_pending
       ELSE /\ timer_pending' =
                   Some([next_hint_number |-> next_hint_number,
                         hint_text |-> current_hints_storage[next_hint_number],
                         now |-> now])
            /\ UNCHANGED timer

\* The iteration after the hint message is sent.
hint_timer_resume ==
    /\ timer_pending # None
    /\ current_hints_revealed' =
           Append(current_hints_revealed,
                  Revealed(timer_pending[1].next_hint_number,
                           timer_pending[1].hint_text))
    /\ last_hint_reveal_time' = Some(timer_pending[1].now)
    /\ UNCHANGED <<correct_answer, current_hints_storage, is_game_active,
                   hint_timing_minutes>>
    /\ SaveGameState
    /\ timer_pending' = None
    /\ timer' = TimerAfterIteration(timer)
    /\ reply' = "tick:revealed"
    /\ UNCHANGED <<user_wins, last_guess_time, wins_file, inflight, now, program, member_roles>>

\* channel.send raises in the iteration: "except Exception" logs it.
hint_timer_raises ==
    /\ timer_pending # None
    /\ timer_pending' = None
    /\ timer' = TimerAfterIteration(timer)
    /\ reply' = "tick:error"
    /\ UNCHANGED <<game_vars, user_wins, last_guess_time, wins_file, state_file,
                   inflight, now, program, member_roles>>

\* game_status with a save_game_state() before the answer.
game_status_saving ==
    /\ reply' = "status"
    /\ UNCHANGED game_vars
    /\ SaveGameState
    /\ UNCHANGED <<user_wins, last_guess_time, wins_file, timer, timer_pending,
                   inflight, now, program, member_roles>>

\* !status, !wins and !mywins read the state and answer.
game_status ==
    /\ reply' = "status"
    /\ UNCHANGED <<game_vars, user_wins, last_guess_time, wins_file, state_file,
                   timer, timer_pending, inflight, now, program, member_roles>>

show_leaderboard ==
    /\ reply' = "wins"
    /\ UNCHANGED <<game_vars, user_wins, last_guess_time, wins_file, state_file,
                   timer, timer_pending, inflight, now, program, member_roles>>

show_my_wins(user_id) ==
    /\ reply' = "mywins"
    /\ UNCHANGED <<game_vars, user_wins, last_guess_time, wins_file, state_file,
                   timer, timer_pending, inflight, now, program, member_roles>>

\* on_ready(): both files are loaded over the variables in memory; an
\* exception of a loader ends on_ready before the timer is started.  memory
\* and wins are the variables before the call.
OnReady(memory, wins, running) ==
    LET w == load_user_wins(wins_file, wins)
        g == load_game_state(state_file, memory)
    IN  /\ user_wins' = w.user_wins
        /\ IF w.raised
           THEN /\ is_game_active' = memory.is_game_active
                /\ correct_answer' = memory.correct_answer
                /\ current_hints_storage' = memory.current_hints_storage
                /\ current_hints_revealed' = memory.current_hints_revealed
                /\ last_hint_reveal_time' = memory.last_hint_reveal_time
                /\ hint_timing_minutes' = memory.hint_timing_minutes
           ELSE /\ is_game_active' = g.state.is_game_active
                /\ correct_answer' = g.state.correct_answer
                /\ current_hints_storage' = g.state.current_hints_storage
                /\ current_hints_revealed' = g.state.current_hints_revealed
                /\ last_hint_reveal_time' = g.state.last_hint_reveal_time
                /\ hint_timing_minutes' = g.state.hint_timing_minutes
        /\ IF w.raised \/ g.raised
           THEN timer' = running /\ reply' = "on_ready:ValueError"
           ELSE timer' = TimerStart(running) /\ reply' = "on_ready"

\* The module-level values of the game variables.
InitialGameState ==
    GameState(FALSE, None, <<>>, <<>>, None, DEFAULT_HINT_TIMING_MINUTES)

\* on_ready() when the connection is made again in the running process.
on_ready ==
    /\ OnReady(GameState(is_game_active, correct_answer, current_hints_storage,
                         current_hints_revealed, last_hint_reveal_time,
                         hint_timing_minutes),
               user_wins, timer)
    /\ UNCHANGED <<last_guess_time, wins_file, state_file, timer_pending, inflight,
                   now, program, member_roles>>

\* The process ends and is started again: the memory holds the module-level
\* values, no coroutine is left, and on_ready() runs.
restart ==
    /\ OnReady(InitialGameState, <<>>, "stopped")
    /\ last_guess_time' = <<>>
    /\ timer_pending' = None
    /\ inflight' = <<>>
    /\ UNCHANGED <<wins_file, state_file, now, program, member_roles>>

\* Time passes.
AdvanceClock(t) ==
    /\ t > now
    /\ now' = t
    /\ UNCHANGED <<game_vars, user_wins, last_guess_time, wins_file, state_file,
                   timer, timer_pending, inflight, reply, program, member_roles>>

(***************************************************************************)
(* Command handlers and timer, guessing_bot.py.  The program keeps only    *)
(* user_wins.json; it has no cooldown, no !setallhints and no !revealhint. *)
(***************************************************************************)
\* One entry of current_hints_revealed, with the channel of !start.
BasicRevealed(number, text, channel_id) ==
    [hint_number |-> number, text |-> text, channel_id |-> channel_id]

\* A suspended !guess.
BasicTask(op, user_id, direct_message) ==
    [op |-> op, user |-> user_id, direct_message |-> direct_message]

\* !setitem <item_name>
basic_set_item_name(item_name) ==
    /\ IF is_game_active
       THEN reply' = "setitem:locked" /\ UNCHANGED correct_answer
       ELSE correct_answer' = Some(Strip(item_name)) /\ reply' = "setitem:ok"
    /\ UNCHANGED <<current_hints_storage, current_hints_revealed, is_game_active,
                   hint_timing_minutes, last_hint_reveal_time, user_wins,
                   last_guess_time, wins_file, state_file, timer, timer_pending,
                   inflight, now, program, member_roles>>

\* !sethint <number> <hint_text>
basic_set_hint(number, hint_text) ==
    /\ IF is_game_active
       THEN reply' = "sethint:locked" /\ UNCHANGED current_hints_storage
       ELSE IF ~(1 <= number /\ number <= BASIC_REQUIRED_HINTS)
       THEN reply' = "sethint:range" /\ UNCHANGED current_hints_storage
       ELSE /\ current_hints_storage' =
                   DictSet(current_hints_storage, number, Strip(hint_text))
            /\ reply' = "sethint:ok"
    /\ UNCHANGED <<correct_answer, current_hints_revealed, is_game_active,
                   hint_timing_minutes, last_hint_reveal_time, user_wins,
                   last_guess_time, wins_file, state_file, timer, timer_pending,
                   inflight, now, program, member_roles>>

\* !sethinttiming <minutes>
basic_set_hint_timing(minutes) ==
    /\ IF is_game_active
       THEN reply' = "sethinttiming:locked" /\ UNCHANGED hint_timing_minutes
       ELSE IF HintTimingOutOfRange(minutes)
       THEN reply' = "sethinttiming:range" /\ UNCHANGED hint_timing_minutes
       ELSE hint_timing_minutes' = minutes /\ reply' = "sethinttiming:ok"
    /\ UNCHANGED <<correct_answer, current_hints_storage, current_hints_revealed,
                   is_game_active, last_hint_reveal_time, user_wins, last_guess_time,
                   wins_file, state_file, timer, timer_pending, inflight, now, program, member_roles>>

\* !stop
basic_stop_game ==
    /\ IF ~is_game_active
       THEN /\ reply' = "stop:noactive"
            /\ UNCHANGED <<is_game_active, correct_answer, current_hints_revealed,
                           current_hints_storage, timer>>
       ELSE /\ is_game_active' = FALSE
            /\ correct_answer' = None
            /\ current_hints_revealed' = <<>>
            /\ current_hints_storage' = <<>>
            /\ timer' = TimerStop(timer)
            /\ reply' = "stop:ok"
    /\ UNCHANGED <<hint_timing_minutes, last_hint_reveal_time, user_wins,
                   last_guess_time, wins_file, state_file, timer_pending, inflight,
                   now, program, member_roles>>

\* "if not correct_answer or len(current_hints_storage) != 5"
BasicStartIncomplete ==
    \/ ~Truthy(correct_answer)
    \/ Cardinality(DOMAIN current_hints_storage) # BASIC_REQUIRED_HINTS

\* current_hints_revealed of a started round: emptied, then hint 1 appended.
BasicStartRevealed(channel_id) ==
    Append(<<>>, BasicRevealed(1, current_hints_storage[1], channel_id))

\* !start in the channel channel_id.  The hint_timer loop is not started.
basic_start_game(channel_id) ==
    /\ IF is_game_active
       THEN /\ reply' = "start:already"
            /\ UNCHANGED <<is_game_active, current_hints_revealed,
                           last_hint_reveal_time>>
       ELSE IF BasicStartIncomplete
       THEN /\ reply' = "start:incomplete"
            /\ UNCHANGED <<is_game_active, current_hints_revealed,
                           last_hint_reveal_time>>
       ELSE IF 1 \notin DOMAIN current_hints_storage
       THEN \* current_hints_storage[1] raises KeyError
            /\ is_game_active' = TRUE
            /\ current_hints_revealed' = <<>>
            /\ reply' = "start:KeyError"
            /\ UNCHANGED last_hint_reveal_time
       ELSE /\ is_game_active' = TRUE
            /\ current_hints_revealed' = BasicStartRevealed(channel_id)
            /\ last_hint_reveal_time' = Some(now)
            /\ reply' = "start:ok"
    /\ UNCHANGED <<correct_answer, current_hints_storage, hint_timing_minutes,
                   user_wins, last_guess_time, wins_file, state_file, timer,
                   timer_pending, inflight, now, program, member_roles>>

\* !guess <guess> up to the first await, the congratulation of a correct
\* guess.  With correct_answer None, correct_answer.lower() raises
\* AttributeError.
basic_guess_item(user_id, guess, direct_message) ==
    /\ DictGet(user_wins, user_id, 0) < MaxWins
    /\ IF NoActiveGame
       THEN reply' = "guess:noactive" /\ UNCHANGED inflight
       ELSE IF correct_answer = None
       THEN reply' = "guess:AttributeError" /\ UNCHANGED inflight
       ELSE IF GuessMatches(guess)
       THEN /\ CanSuspendGuess(user_id)
            /\ inflight' =
                   BagAdd(inflight,
                          BasicTask("guess:congratulate", user_id, direct_message))
            /\ reply' = "guess:correct"
       ELSE reply' = "guess:incorrect" /\ UNCHANGED inflight
    /\ UNCHANGED <<game_vars, user_wins, last_guess_time, wins_file, state_file,
                   timer, timer_pending, now, program, member_roles>>

\* !guess after the congratulation is sent: the timer is stopped and
\* award_winner_roles runs up to "await member.send(...)".  In a direct
\* message member.guild raises AttributeError before the win is counted.
basic_guess_item_award(task) ==
    /\ task \in DOMAIN inflight
    /\ task.op = "guess:congratulate"
    /\ timer' = TimerStop(timer)
    /\ IF task.direct_message
       THEN /\ inflight' = BagRemove(inflight, task)
            /\ reply' = "guess:AttributeError"
            /\ UNCHANGED <<user_wins, wins_file>>
       ELSE /\ user_wins' =
                   DictSet(user_wins, task.user, DictGet(user_wins, task.user, 0) + 1)
            /\ wins_file' = save_user_wins(user_wins')
            /\ inflight' =
                   BagAdd(BagRemove(inflight, task),
                          BasicTask("guess:award", task.user, task.direct_message))
            /\ reply' = "guess:awarded"
    /\ UNCHANGED <<game_vars, last_guess_time, state_file, timer_pending, now, program, member_roles>>

\* !guess after award_winner_roles has returned: the round ends.  The item,
\* the hints and the revealed hints stay as they are.
basic_guess_item_resume(task) ==
    /\ task \in DOMAIN inflight
    /\ task.op = "guess:award"
    /\ inflight' = BagRemove(inflight, task)
    /\ is_game_active' = FALSE
    /\ reply' = "guess:over"
    /\ UNCHANGED <<correct_answer, current_hints_storage, current_hints_revealed,
                   hint_timing_minutes, last_hint_reveal_time, user_wins,
                   last_guess_time, wins_file, state_file, timer, timer_pending,
                   now, program, member_roles>>

\* The await a !guess is suspended at raises: the rest of the handler does
\* not run.
basic_await_raises(task) ==
    /\ task \in DOMAIN inflight
    /\ inflight' = BagRemove(inflight, task)
    /\ reply' = "raised"
    /\ UNCHANGED <<game_vars, user_wins, last_guess_time, wins_file, state_file,
                   timer, timer_pending, now, program, member_roles>>

\* One iteration of the hint_timer loop of guessing_bot.py up to
\* "await channel.send(...)".  channel is whether bot.get_channel finds the
\* channel of the first revealed hint.  Nothing catches an exception: the
\* loop ends with it.
basic_hint_timer(channel) ==
    LET next_hint_number == Len(current_hints_revealed) + 1 IN
    /\ TimerIsRunning(timer)
    /\ timer_pending = None
    /\ UNCHANGED <<game_vars, user_wins, last_guess_time, wins_file, state_file,
                   inflight, now, program, member_roles>>
    /\ IF \/ ~is_game_active
          \/ last_hint_reveal_time = None
          \/ current_hints_storage = <<>>
       THEN /\ timer' = TimerAfterIteration(timer)
            /\ reply' = "tick"
            /\ UNCHANGED timer_pending
       ELSE IF ~HintDue
       THEN /\ timer' = TimerAfterIteration(timer)
            /\ reply' = "tick"
            /\ UNCHANGED timer_pending
       ELSE IF next_hint_number \notin DOMAIN current_hints_storage
       THEN /\ timer' = TimerAfterIteration(TimerStop(timer))
            /\ reply' = "tick"
            /\ UNCHANGED timer_pending
       ELSE IF current_hints_revealed = <<>>
       THEN \* current_hints_revealed[0] raises IndexError
            /\ timer' = "stopped"
            /\ reply' = "tick:IndexError"
            /\ UNCHANGED timer_pending
       ELSE IF ~channel
       THEN /\ timer' = TimerAfterIteration(timer)
            /\ reply' = "tick"
            /\ UNCHANGED timer_pending
       ELSE /\ timer_pending' =
                   Some([next_hint_number |-> next_hint_number,
                         hint_text |-> current_hints_storage[next_hint_number],
                         now |-> now,
                         channel_id |-> current_hints_revealed[1].channel_id])
            /\ reply' = "tick"
            /\ UNCHANGED timer

\* The iteration after the hint message is sent.  Nothing is saved.
basic_hint_timer_resume ==
    /\ timer_pending # None
    /\ current_hints_revealed' =
           Append(current_hints_revealed,
                  BasicRevealed(timer_pending[1].next_hint_number,
                                timer_pending[1].hint_text,
                                timer_pending[1].channel_id))
    /\ last_hint_reveal_time' = Some(timer_pending[1].now)
    /\ timer_pending' = None
    /\ timer' = TimerAfterIteration(timer)
    /\ reply' = "tick:revealed"
    /\ UNCHANGED <<correct_answer, current_hints_storage, is_game_active,
                   hint_timing_minutes, user_wins, last_guess_time, wins_file,
                   state_file, inflight, now, program, member_roles>>

\* channel.send raises in the iteration: the loop ends.
basic_hint_timer_raises ==
    /\ timer_pending # None
    /\ timer_pending' = None
    /\ timer' = "stopped"
    /\ reply' = "tick:error"
    /\ UNCHANGED <<game_vars, user_wins, last_guess_time, wins_file, state_file,
                   inflight, now, program, member_roles>>

\* !leaderboard reads the ledger and answers.
basic_show_leaderboard ==
    /\ reply' = IF user_wins = <<>> THEN "leaderboard:empty" ELSE "leaderboard"
    /\ UNCHANGED <<game_vars, user_wins, last_guess_time, wins_file, state_file,
                   timer, timer_pending, inflight, now, program, member_roles>>

\* The module-level values of the game variables of guessing_bot.py.
BasicInitialGameState ==
    GameState(FALSE, None, <<>>, <<>>, None, BASIC_DEFAULT_HINT_TIMING)

\* on_ready() of guessing_bot.py: the ledger is loaded and the timer started;
\* an exception of load_user_wins ends on_ready before that.
BasicOnReady(wins, running) ==
    LET w == load_user_wins(wins_file, wins)
    IN  /\ user_wins' = w.user_wins
        /\ IF w.raised
           THEN timer' = running /\ reply' = "on_ready:ValueError"
           ELSE timer' = TimerStart(running) /\ reply' = "on_ready"

\* on_ready() when the connection is made again in the running process.
basic_on_ready ==
    /\ BasicOnReady(user_wins, timer)
    /\ UNCHANGED <<game_vars, last_guess_time, wins_file, state_file, timer_pending,
                   inflight, now, program, member_roles>>

\* The process ends and is started again: the round is lost, the ledger is
\* loaded.
basic_restart ==
    /\ BasicOnReady(<<>>, "stopped")
    /\ is_game_active' = BasicInitialGameState.is_game_active
    /\ correct_answer' = BasicInitialGameState.correct_answer
    /\ current_hints_storage' = BasicInitialGameState.current_hints_storage
    /\ current_hints_revealed' = BasicInitialGameState.current_hints_revealed
    /\ last_hint_reveal_time' = BasicInitialGameState.last_hint_reveal_time
    /\ hint_timing_minutes' = BasicInitialGameState.hint_timing_minutes
    /\ timer_pending' = None
    /\ inflight' = <<>>
    /\ UNCHANGED <<last_guess_time, wins_file, state_file, now, program, member_roles>>

(***************************************************************************)
(* Inputs                                                                  *)
(***************************************************************************)
\* The seven lines "1" .. "7".
SevenLines == [i \in 1..REQUIRED_HINTS |-> <<Digits[i + 1]>>]

\* The instants at which the clock is read.
Instants == 0..MaxTime

\* The process has started with no file on disk and on_ready() has run.
Init ==
    /\ correct_answer = None
    /\ current_hints_storage = <<>>
    /\ current_hints_revealed = <<>>
    /\ is_game_active = FALSE
    /\ hint_timing_minutes = DEFAULT_HINT_TIMING_MINUTES
    /\ last_hint_reveal_time = None
    /\ user_wins = <<>>
    /\ last_guess_time = <<>>
    /\ wins_file = MissingFile
    /\ state_file = MissingFile
    /\ timer = "running"
    /\ timer_pending = None
    /\ inflight = <<>>
    /\ now = 0
    /\ reply = "on_ready"
    /\ member_roles = <<>>
    /\ program = FinalEn

\* guessing_bot.py has started with no file on disk and on_ready() has run.
BasicInit ==
    /\ correct_answer = None
    /\ current_hints_storage = <<>>
    /\ current_hints_revealed = <<>>
    /\ is_game_active = FALSE
    /\ hint_timing_minutes = BASIC_DEFAULT_HINT_TIMING
    /\ last_hint_reveal_time = None
    /\ user_wins = <<>>
    /\ last_guess_time = <<>>
    /\ wins_file = MissingFile
    /\ state_file = MissingFile
    /\ timer = "running"
    /\ timer_pending = None
    /\ inflight = <<>>
    /\ now = 0
    /\ reply = "on_ready"
    /\ member_roles = <<>>
    /\ program = Basic

\* The five lines "1" .. "5".
FiveLines == [i \in 1..BASIC_REQUIRED_HINTS |-> <<Digits[i + 1]>>]

(***************************************************************************)
(* Specifications.  A behaviour is a behaviour of one of the two programs: *)
(* program is chosen by the initial state and every action is of that      *)
(* program.                                                                *)
(***************************************************************************)
InitBoth == Init \/ BasicInit

\* The hint numbers of guessing_bot.py, each set by its own !sethint.
BasicHintNumbers == 1..BASIC_REQUIRED_HINTS
BasicHintTexts == {<<"x", " ">>}
\* The channel !start is sent in.
BasicChannels == {1}

(***************************************************************************)
(* Spec: the life of a round, with the handlers interleaved at their       *)
(* awaits and the process restarted at any point.                          *)
(***************************************************************************)
SpecItems == {<<"A", "b">>}
SpecGuesses == {<<" ", "a", "B">>, <<"b">>}
SpecHintNumbers == {0, 1}
SpecHintTexts == {<<"x", " ">>}
SpecAllHints == {SevenLines, SubSeq(SevenLines, 1, REQUIRED_HINTS - 1)}
SpecUsers == {1}

Next ==
    \/ program = FinalEn /\ \E item \in SpecItems : set_item_name(item)
    \/ program = FinalEn /\ \E n \in SpecHintNumbers, text \in SpecHintTexts :
                                set_hint(n, text)
    \/ program = FinalEn /\ \E lines \in SpecAllHints : set_all_hints(lines)
    \/ program = FinalEn /\ stop_game
    \/ program = FinalEn /\ \E channel \in BOOLEAN : start_game(channel)
    \/ program = FinalEn /\ start_game_resume
    \/ program = FinalEn /\ \E u \in SpecUsers, g \in SpecGuesses, dm \in BOOLEAN :
                                guess_item(u, g, dm)
    \/ program = FinalEn /\ \E task \in DOMAIN inflight : guess_item_resume(task)
    \/ program = FinalEn /\ \E task \in DOMAIN inflight : await_raises(task)
    \/ program = FinalEn /\ on_ready
    \/ program = FinalEn /\ restart
    \/ program = Basic /\ \E item \in SpecItems : basic_set_item_name(item)
    \/ program = Basic /\ \E n \in BasicHintNumbers, text \in BasicHintTexts :
                              basic_set_hint(n, text)
    \/ program = Basic /\ basic_stop_game
    \/ program = Basic /\ \E c \in BasicChannels : basic_start_game(c)
    \/ program = Basic /\ \E u \in SpecUsers, g \in SpecGuesses, dm \in BOOLEAN :
                              basic_guess_item(u, g, dm)
    \/ program = Basic /\ \E task \in DOMAIN inflight : basic_guess_item_award(task)
    \/ program = Basic /\ \E task \in DOMAIN inflight : basic_guess_item_resume(task)
    \/ program = Basic /\ \E task \in DOMAIN inflight : basic_await_raises(task)
    \/ program = Basic /\ basic_on_ready
    \/ program = Basic /\ basic_restart
    \/ \E t \in Instants : AdvanceClock(t)

Spec == InitBoth /\ [][Next]_vars

(***************************************************************************)
(* SpecTimer: the hint_timer loop and the manual reveal, interleaved at    *)
(* their awaits, as time passes.  A message is sent, or fails, within the  *)
(* minute: the clock moves on when no coroutine is suspended.              *)
(***************************************************************************)
TimerItems == {<<"A">>}
TimerAllHints == {SevenLines}
TimerTimings == {1}

NothingSuspended == inflight = <<>> /\ timer_pending = None

NextTimer ==
    \/ program = FinalEn /\ \E item \in TimerItems : set_item_name(item)
    \/ program = FinalEn /\ \E lines \in TimerAllHints : set_all_hints(lines)
    \/ program = FinalEn /\ \E m \in TimerTimings : set_hint_timing(m)
    \/ program = FinalEn /\ stop_game
    \/ program = FinalEn /\ \E channel \in BOOLEAN : start_game(channel)
    \/ program = FinalEn /\ start_game_resume
    \/ program = FinalEn /\ \E channel \in BOOLEAN : reveal_hint_manual(channel)
    \/ program = FinalEn /\ \E task \in DOMAIN inflight :
                                reveal_hint_manual_resume(task)
    \/ program = FinalEn /\ \E task \in DOMAIN inflight : await_raises(task)
    \/ program = FinalEn /\ \E ready \in BOOLEAN, channel \in BOOLEAN :
                                hint_timer(ready, channel)
    \/ program = FinalEn /\ hint_timer_resume
    \/ program = FinalEn /\ hint_timer_raises
    \/ program = Basic /\ \E item \in TimerItems : basic_set_item_name(item)
    \/ program = Basic /\ \E n \in BasicHintNumbers, text \in BasicHintTexts :
                              basic_set_hint(n, text)
    \/ program = Basic /\ \E m \in TimerTimings : basic_set_hint_timing(m)
    \/ program = Basic /\ basic_stop_game
    \/ program = Basic /\ \E c \in BasicChannels : basic_start_game(c)
    \/ program = Basic /\ \E channel \in BOOLEAN : basic_hint_timer(channel)
    \/ program = Basic /\ basic_hint_timer_resume
    \/ program = Basic /\ basic_hint_timer_raises
    \/ program = Basic /\ basic_on_ready
    \/ \E t \in Instants : NothingSuspended /\ AdvanceClock(t)

SpecTimer == InitBoth /\ [][NextTimer]_vars

(***************************************************************************)
(* SpecConfig: the configuration commands with their accepted and rejected *)
(* inputs, start, stop and the read-only commands.                         *)
(***************************************************************************)
ConfigItems == {<<"A">>, <<" ", "b", " ">>}
ConfigHintNumbers == {0, 1, 2, REQUIRED_HINTS, REQUIRED_HINTS + 1}
ConfigHintTexts == {<<"x", " ">>}
ConfigAllHints ==
    {SevenLines,
     SubSeq(SevenLines, 1, REQUIRED_HINTS - 1),
     Append(SevenLines, <<"8">>),
     <<<<" ">>>> \o SevenLines \o <<<<>>>>}
ConfigTimings ==
    {MIN_HINT_TIMING - 1, MIN_HINT_TIMING, MAX_HINT_TIMING, MAX_HINT_TIMING + 1}
BasicConfigHintNumbers == 0..(BASIC_REQUIRED_HINTS + 1)

NextConfig ==
    \/ program = FinalEn /\ \E item \in ConfigItems : set_item_name(item)
    \/ program = FinalEn /\ \E n \in ConfigHintNumbers, text \in ConfigHintTexts :
                                set_hint(n, text)
    \/ program = FinalEn /\ \E lines \in ConfigAllHints : set_all_hints(lines)
    \/ program = FinalEn /\ \E m \in ConfigTimings : set_hint_timing(m)
    \/ program = FinalEn /\ stop_game
    \/ program = FinalEn /\ \E channel \in BOOLEAN : start_game(channel)
    \/ program = FinalEn /\ start_game_resume
    \/ program = FinalEn /\ \E task \in DOMAIN inflight : await_raises(task)
    \/ program = FinalEn /\ game_status
    \/ program = FinalEn /\ show_leaderboard
    \/ program = FinalEn /\ \E u \in SpecUsers : show_my_wins(u)
    \/ program = Basic /\ \E item \in ConfigItems : basic_set_item_name(item)
    \/ program = Basic /\ \E n \in BasicConfigHintNumbers, text \in ConfigHintTexts :
                              basic_set_hint(n, text)
    \/ program = Basic /\ \E m \in ConfigTimings : basic_set_hint_timing(m)
    \/ program = Basic /\ basic_stop_game
    \/ program = Basic /\ \E c \in BasicChannels : basic_start_game(c)

SpecConfig == InitBoth /\ [][NextConfig]_vars

(***************************************************************************)
(* SpecGuess: guesses against the item, in letters of either case and     *)
(* with whitespace around and inside.  The clock moves by whole            *)
(* cooldowns, so that a user may guess again.                              *)
(***************************************************************************)
GuessItems == {<<"A", "b">>, <<"a", " ", "b">>}
GuessTexts ==
    {<<"a", "b">>, <<"A", "B">>, <<" ", "a", "B", " ">>, <<"a", " ", "b">>,
     <<"a", " ", " ", "b">>, <<"a">>}
GuessInstants == {k * GUESS_COOLDOWN_MINUTES : k \in 0..MaxTime}

NextGuess ==
    \/ program = FinalEn /\ \E item \in GuessItems : set_item_name(item)
    \/ program = FinalEn /\ \E lines \in TimerAllHints : set_all_hints(lines)
    \/ program = FinalEn /\ start_game(TRUE)
    \/ program = FinalEn /\ \E u \in SpecUsers, g \in GuessTexts, dm \in BOOLEAN :
                                guess_item(u, g, dm)
    \/ program = FinalEn /\ \E task \in DOMAIN inflight : guess_item_resume(task)
    \/ program = FinalEn /\ \E task \in DOMAIN inflight : await_raises(task)
    \/ program = Basic /\ \E item \in GuessItems : basic_set_item_name(item)
    \/ program = Basic /\ \E n \in BasicHintNumbers, text \in BasicHintTexts :
                              basic_set_hint(n, text)
    \/ program = Basic /\ \E c \in BasicChannels : basic_start_game(c)
    \/ program = Basic /\ \E u \in SpecUsers, g \in GuessTexts, dm \in BOOLEAN :
                              basic_guess_item(u, g, dm)
    \/ program = Basic /\ \E task \in DOMAIN inflight : basic_guess_item_award(task)
    \/ program = Basic /\ \E task \in DOMAIN inflight : basic_guess_item_resume(task)
    \/ program = Basic /\ \E task \in DOMAIN inflight : basic_await_raises(task)
    \/ \E t \in GuessInstants : AdvanceClock(t)

SpecGuess == InitBoth /\ [][NextGuess]_vars

(***************************************************************************)
(* SpecCooldown: guesses of two users of guessing_bot_final_en.py at       *)
(* instants around the end of the cooldown.                                *)
(***************************************************************************)
CooldownUsers == {1, 2}
CooldownGuesses == {<<"a">>, <<"b">>}
CooldownInstants ==
    {t \in 0..(GUESS_COOLDOWN_MINUTES + MaxTime) :
        t < MaxTime \/ t >= GUESS_COOLDOWN_MINUTES - 1}

NextCooldown ==
    \/ \E item \in TimerItems : set_item_name(item)
    \/ \E lines \in TimerAllHints : set_all_hints(lines)
    \/ start_game(TRUE)
    \/ \E u \in CooldownUsers, g \in CooldownGuesses : guess_item(u, g, FALSE)
    \/ \E task \in DOMAIN inflight : guess_item_resume(task)
    \/ \E task \in DOMAIN inflight : await_raises(task)
    \/ \E t \in CooldownInstants : AdvanceClock(t)

SpecCooldown == Init /\ [][NextCooldown]_vars

(***************************************************************************)
(* SpecLoad: guessing_bot_final_en.py is started with user_wins.json and   *)
(* game_state.json as they may be found on disk: missing, not JSON, JSON   *)
(* of the shape the program writes, JSON of another shape.                 *)
(***************************************************************************)
\* game_state.json as saved in an active round.
SavedRound ==
    save_game_state(TRUE, Some(<<"A">>), SevenLines,
                    <<Revealed(1, SevenLines[1])>>, Some(0), MIN_HINT_TIMING)

\* game_state.json as saved with no round.
SavedIdle ==
    save_game_state(FALSE, None, <<>>, <<>>, None, DEFAULT_HINT_TIMING_MINUTES)

\* A hint key that is not an integer.
WithTextKey(file) ==
    JsonFile([file.data EXCEPT !.current_hints_storage = [s \in {"one"} |-> <<"x">>]])

\* A timestamp that is not ISO 8601.
WithBadTime(file) ==
    JsonFile([file.data EXCEPT
                !.last_hint_reveal_time = Some([fmt |-> "bad", t |-> 0])])

\* An interval of minutes that !sethinttiming would not accept.
WithTiming(file, minutes) ==
    JsonFile([file.data EXCEPT !.hint_timing_minutes = minutes])

StateFiles ==
    {MissingFile, UnparseableFile, JsonFile(<<>>), SavedRound, SavedIdle,
     WithTextKey(SavedRound), WithTextKey(SavedIdle),
     WithBadTime(SavedRound), WithBadTime(SavedIdle),
     WithTiming(SavedIdle, MIN_HINT_TIMING - 1),
     WithTiming(SavedIdle, MAX_HINT_TIMING + 1)}

WinsFiles ==
    {MissingFile, UnparseableFile, JsonFile(<<>>),
     JsonFile([s \in {"1"} |-> 1]), JsonFile([s \in {"1", "2"} |-> 2]),
     JsonFile([s \in {"x"} |-> 1])}

\* The module is imported: on_ready() has not run yet.
LoadInit ==
    /\ correct_answer = None
    /\ current_hints_storage = <<>>
    /\ current_hints_revealed = <<>>
    /\ is_game_active = FALSE
    /\ hint_timing_minutes = DEFAULT_HINT_TIMING_MINUTES
    /\ last_hint_reveal_time = None
    /\ user_wins = <<>>
    /\ last_guess_time = <<>>
    /\ wins_file \in WinsFiles
    /\ state_file \in StateFiles
    /\ timer = "stopped"
    /\ timer_pending = None
    /\ inflight = <<>>
    /\ now = 0
    /\ reply = "import"
    /\ member_roles = <<>>
    /\ program = FinalEn

\* Commands are served once on_ready() has run.
Booted == reply # "import"

NextLoad ==
    \/ restart
    \/ Booted /\ on_ready
    \/ Booted /\ \E item \in TimerItems : set_item_name(item)
    \/ Booted /\ \E lines \in TimerAllHints : set_all_hints(lines)
    \/ Booted /\ \E m \in ConfigTimings : set_hint_timing(m)
    \/ Booted /\ \E channel \in BOOLEAN : start_game(channel)
    \/ Booted /\ start_game_resume
    \/ Booted /\ stop_game
    \/ \E t \in Instants : Booted /\ AdvanceClock(t)

SpecLoad == LoadInit /\ [][NextLoad]_vars

(***************************************************************************)
(* The reward of a win: award_winner_roles selects the role of the highest *)
(* level the winner has reached.  Granting and revoking the roles is left  *)
(* to Discord; the step answers which role was selected.                   *)
(***************************************************************************)
\* WINNER_ROLES_CONFIG: minimum wins -> role id, the same in both files.
WINNER_ROLES_CONFIG ==
    (1 :> "1441693698776764486") @@ (5 :> "1441693984266129469")
        @@ (10 :> "1441694043477381150") @@ (25 :> "1441694109268967505")
        @@ (50 :> "1441694179011989534") @@ (100 :> "1441694438345674855")

\* sorted(WINNER_ROLES_CONFIG.keys(), reverse=True)
RECURSIVE SortedReverse(_)
SortedReverse(S) ==
    IF S = {} THEN <<>>
    ELSE LET m == CHOOSE x \in S : \A y \in S : y <= x
         IN  <<m>> \o SortedReverse(S \ {m})

\* TierReached with ">" for ">=".
TierReachedStrictly(wins_count, level) == wins_count > level

\* "if wins_count >= level"
TierReached(wins_count, level) == wins_count >= level

\* "for level in sorted_wins_levels: if wins_count >= level:
\*      achieved_role_id = WINNER_ROLES_CONFIG[level]; break"
RECURSIVE FirstLevelReached(_, _)
FirstLevelReached(levels, wins_count) ==
    IF levels = <<>> THEN None
    ELSE IF TierReached(wins_count, Head(levels))
    THEN Some(WINNER_ROLES_CONFIG[Head(levels)])
    ELSE FirstLevelReached(Tail(levels), wins_count)

\* achieved_role_id of award_winner_roles for a winner with wins_count wins.
achieved_role_id(wins_count) ==
    FirstLevelReached(SortedReverse(DOMAIN WINNER_ROLES_CONFIG), wins_count)

\* What the step answers for the role selected.
RoleReply(role) == IF role = None THEN "award:none" ELSE role[1]

\* award_winner_roles(member) of guessing_bot_final_en.py, up to the role
\* selected: the caller has counted the win.
award_winner_roles(user_id) ==
    /\ reply' = RoleReply(achieved_role_id(DictGet(user_wins, user_id, 0)))
    /\ UNCHANGED <<game_vars, user_wins, last_guess_time, wins_file, state_file,
                   timer, timer_pending, inflight, now, program, member_roles>>

\* award_winner_roles(member) of guessing_bot.py, up to the role selected:
\* the win is counted and saved first.
basic_award_winner_roles(user_id) ==
    /\ DictGet(user_wins, user_id, 0) < MaxTierWins
    /\ user_wins' = DictSet(user_wins, user_id, DictGet(user_wins, user_id, 0) + 1)
    /\ wins_file' = save_user_wins(user_wins')
    /\ reply' = RoleReply(achieved_role_id(user_wins'[user_id]))
    /\ UNCHANGED <<game_vars, last_guess_time, state_file, timer, timer_pending,
                   inflight, now, program, member_roles>>

\* list(WINNER_ROLES_CONFIG.values())
all_winner_role_ids == {WINNER_ROLES_CONFIG[level] : level \in DOMAIN WINNER_ROLES_CONFIG}

\* roles_to_remove without "role.id != achieved_role_id".
roles_to_remove_any(roles, achieved) ==
    {role \in roles : role \in all_winner_role_ids}

\* "roles_to_remove = [role for role in member.roles
\*      if role.id in all_winner_role_ids and role.id != achieved_role_id]"
roles_to_remove(roles, achieved) ==
    {role \in roles : role \in all_winner_role_ids /\ role # achieved}

\* A role has been selected for the winner and is still to be granted.
RoleSelected == reply \in all_winner_role_ids

\* award_winner_roles of guessing_bot_final_en.py from "if achieved_role_id":
\* the role selected is looked up in the guild (found), added when the member
\* does not hold it, the other roles of WINNER_ROLES_CONFIG that the member
\* holds are removed and, when a role was added, the member is told.  raises
\* is the call that raises, if any: the except clauses log it and the rest of
\* the try block does not run.  removed_names is bound only when a role is
\* removed: with a role added and none removed the message to the member
\* raises NameError, which is logged as well.
award_winner_roles_update(user_id, found, raises) ==
    LET roles == DictGet(member_roles, user_id, {})
        achieved == reply
        to_remove == roles_to_remove(roles, achieved)
        role_added == achieved \notin roles
        added == IF role_added /\ raises # "add_roles"
                 THEN roles \cup {achieved} ELSE roles
        removed == IF \/ role_added /\ raises = "add_roles"
                      \/ to_remove = {}
                      \/ raises = "remove_roles"
                   THEN added ELSE added \ to_remove
    IN  /\ RoleSelected
        /\ raises \in {"none", "add_roles", "remove_roles", "send"}
        /\ IF ~found
           THEN /\ reply' = "award:notfound"
                /\ UNCHANGED member_roles
           ELSE /\ member_roles' = DictSet(member_roles, user_id, removed)
                /\ reply' =
                       IF \/ role_added /\ raises \in {"add_roles", "send"}
                          \/ to_remove # {} /\ raises = "remove_roles"
                          \/ role_added /\ to_remove = {}
                       THEN "award:error" ELSE "award:done"
        /\ UNCHANGED <<game_vars, user_wins, last_guess_time, wins_file,
                       state_file, timer, timer_pending, inflight, now, program>>

\* award_winner_roles of guessing_bot.py from "if achieved_role_id": as above,
\* but the member is told right after the role is added, before the other
\* roles are removed.
basic_award_winner_roles_update(user_id, found, raises) ==
    LET roles == DictGet(member_roles, user_id, {})
        achieved == reply
        to_remove == roles_to_remove(roles, achieved)
        role_added == achieved \notin roles
        added == IF role_added /\ raises # "add_roles"
                 THEN roles \cup {achieved} ELSE roles
        removed == IF \/ role_added /\ raises \in {"add_roles", "send"}
                      \/ to_remove = {}
                      \/ raises = "remove_roles"
                   THEN added ELSE added \ to_remove
    IN  /\ RoleSelected
        /\ raises \in {"none", "add_roles", "remove_roles", "send"}
        /\ IF ~found
           THEN /\ reply' = "award:notfound"
                /\ UNCHANGED member_roles
           ELSE /\ member_roles' = DictSet(member_roles, user_id, removed)
                /\ reply' =
                       IF \/ role_added /\ raises \in {"add_roles", "send"}
                          \/ to_remove # {} /\ raises = "remove_roles"
                       THEN "award:error" ELSE "award:done"
        /\ UNCHANGED <<game_vars, user_wins, last_guess_time, wins_file,
                       state_file, timer, timer_pending, inflight, now, program>>

(***************************************************************************)
(* SpecTier: the role selected for a winner, for every number of wins up   *)
(* to beyond the highest level.  The ledger is as loaded from              *)
(* user_wins.json when the process started.                                *)
(***************************************************************************)
TierUsers == {1}
TierLedgers ==
    {<<>>} \cup {[u \in TierUsers |-> w] : w \in 1..MaxTierWins}

TierInit ==
    /\ correct_answer = None
    /\ current_hints_storage = <<>>
    /\ current_hints_revealed = <<>>
    /\ is_game_active = FALSE
    /\ program \in {FinalEn, Basic}
    /\ hint_timing_minutes =
           IF program = FinalEn THEN DEFAULT_HINT_TIMING_MINUTES
           ELSE BASIC_DEFAULT_HINT_TIMING
    /\ last_hint_reveal_time = None
    /\ user_wins \in TierLedgers
    /\ last_guess_time = <<>>
    /\ wins_file = IF user_wins = <<>> THEN MissingFile ELSE save_user_wins(user_wins)
    /\ state_file = MissingFile
    /\ timer = "running"
    /\ timer_pending = None
    /\ inflight = <<>>
    /\ now = 0
    /\ reply = "on_ready"
    /\ member_roles = <<>>

NextTier ==
    \/ program = FinalEn /\ \E u \in TierUsers : award_winner_roles(u)
    \/ program = Basic /\ \E u \in TierUsers : basic_award_winner_roles(u)

SpecTier == TierInit /\ [][NextTier]_vars

(***************************************************************************)
(* SpecRoles: the roles of a winner before and after award_winner_roles,   *)
(* for every number of wins and for a member who holds none, one or        *)
(* several of the roles of WINNER_ROLES_CONFIG and a role that is not one   *)
(* of them.                                                                *)
(***************************************************************************)
\* A role of the guild that is not in WINNER_ROLES_CONFIG.
OtherRole == "0"
HeldRoles ==
    {WINNER_ROLES_CONFIG[1], WINNER_ROLES_CONFIG[5], WINNER_ROLES_CONFIG[100],
     OtherRole}
RaisingCalls == {"none", "add_roles", "remove_roles", "send"}

RolesInit ==
    /\ correct_answer = None
    /\ current_hints_storage = <<>>
    /\ current_hints_revealed = <<>>
    /\ is_game_active = FALSE
    /\ program \in {FinalEn, Basic}
    /\ hint_timing_minutes =
           IF program = FinalEn THEN DEFAULT_HINT_TIMING_MINUTES
           ELSE BASIC_DEFAULT_HINT_TIMING
    /\ last_hint_reveal_time = None
    /\ user_wins \in TierLedgers
    /\ last_guess_time = <<>>
    /\ wins_file = IF user_wins = <<>> THEN MissingFile ELSE save_user_wins(user_wins)
    /\ state_file = MissingFile
    /\ timer = "running"
    /\ timer_pending = None
    /\ inflight = <<>>
    /\ now = 0
    /\ reply = "on_ready"
    /\ member_roles \in [TierUsers -> SUBSET HeldRoles]

NextRoles ==
    \/ program = FinalEn /\ \E u \in TierUsers : award_winner_roles(u)
    \/ program = FinalEn /\ \E u \in TierUsers, found \in BOOLEAN,
                               raises \in RaisingCalls :
                                award_winner_roles_update(u, found, raises)
    \/ program = Basic /\ \E u \in TierUsers : basic_award_winner_roles(u)
    \/ program = Basic /\ \E u \in TierUsers, found \in BOOLEAN,
                             raises \in RaisingCalls :
                              basic_award_winner_roles_update(u, found, raises)

SpecRoles == RolesInit /\ [][NextRoles]_vars

(***************************************************************************)
(* SpecInspect: the commands that show the state, in the states a round    *)
(* goes through: configured in part and in full, active, won, stopped,     *)
(* with guesses in their cooldown and wins in the ledger.                  *)
(***************************************************************************)
InspectHintNumbers == {1}

NextInspect ==
    \/ program = FinalEn /\ \E item \in TimerItems : set_item_name(item)
    \/ program = FinalEn /\ \E n \in InspectHintNumbers, text \in SpecHintTexts :
                                set_hint(n, text)
    \/ program = FinalEn /\ \E lines \in TimerAllHints : set_all_hints(lines)
    \/ program = FinalEn /\ start_game(TRUE)
    \/ program = FinalEn /\ stop_game
    \/ program = FinalEn /\ \E u \in SpecUsers, g \in CooldownGuesses :
                                guess_item(u, g, FALSE)
    \/ program = FinalEn /\ \E task \in DOMAIN inflight : guess_item_resume(task)
    \/ program = FinalEn /\ game_status
    \/ program = FinalEn /\ show_leaderboard
    \/ program = FinalEn /\ \E u \in SpecUsers : show_my_wins(u)
    \/ program = Basic /\ \E item \in TimerItems : basic_set_item_name(item)
    \/ program = Basic /\ \E n \in BasicHintNumbers, text \in BasicHintTexts :
                              basic_set_hint(n, text)
    \/ program = Basic /\ \E c \in BasicChannels : basic_start_game(c)
    \/ program = Basic /\ basic_stop_game
    \/ program = Basic /\ \E u \in SpecUsers, g \in CooldownGuesses :
                              basic_guess_item(u, g, FALSE)
    \/ program = Basic /\ \E task \in DOMAIN inflight : basic_guess_item_award(task)
    \/ program = Basic /\ \E task \in DOMAIN inflight : basic_guess_item_resume(task)
    \/ program = Basic /\ basic_show_leaderboard
    \/ \E t \in GuessInstants : AdvanceClock(t)

SpecInspect == InitBoth /\ [][NextInspect]_vars

(***************************************************************************)
(* SpecRace: one round, started, and the guesses of two users with their   *)
(* handlers interleaved at the awaits.  Nothing starts another round.      *)
(***************************************************************************)
RaceItem == <<"a">>

\* The state !start leaves: the round of RaceItem is active with its first
\* hint revealed at minute 0.
RaceInit ==
    /\ program \in {FinalEn, Basic}
    /\ correct_answer = Some(RaceItem)
    /\ current_hints_storage = IF program = FinalEn THEN SevenLines ELSE FiveLines
    /\ current_hints_revealed =
           IF program = FinalEn THEN <<Revealed(1, SevenLines[1])>>
           ELSE <<BasicRevealed(1, FiveLines[1], 1)>>
    /\ is_game_active = TRUE
    /\ hint_timing_minutes =
           IF program = FinalEn THEN DEFAULT_HINT_TIMING_MINUTES
           ELSE BASIC_DEFAULT_HINT_TIMING
    /\ last_hint_reveal_time = Some(0)
    /\ user_wins = <<>>
    /\ last_guess_time = <<>>
    /\ wins_file = MissingFile
    /\ state_file =
           IF program = FinalEn
           THEN save_game_state(TRUE, Some(RaceItem), SevenLines,
                                <<Revealed(1, SevenLines[1])>>, Some(0),
                                DEFAULT_HINT_TIMING_MINUTES)
           ELSE MissingFile
    /\ timer = "running"
    /\ timer_pending = None
    /\ inflight = <<>>
    /\ now = 0
    /\ reply = "start:ok"
    /\ member_roles = <<>>

NextRace ==
    \/ program = FinalEn /\ \E u \in CooldownUsers, g \in CooldownGuesses :
                                guess_item(u, g, FALSE)
    \/ program = FinalEn /\ \E task \in DOMAIN inflight : guess_item_resume(task)
    \/ program = FinalEn /\ \E task \in DOMAIN inflight : await_raises(task)
    \/ program = Basic /\ \E u \in CooldownUsers, g \in CooldownGuesses :
                              basic_guess_item(u, g, FALSE)
    \/ program = Basic /\ \E task \in DOMAIN inflight : basic_guess_item_award(task)
    \/ program = Basic /\ \E task \in DOMAIN inflight : basic_guess_item_resume(task)
    \/ \E t \in CooldownInstants : AdvanceClock(t)

SpecRace == RaceInit /\ [][NextRace]_vars

(***************************************************************************)
(* SpecCatchUp: a started round and the hint_timer loop alone, with ticks  *)
(* that come late by one or several intervals.                             *)
(***************************************************************************)
CatchUpTimings == {1, 2}
CatchUpInstants == 0..(2 * MaxTime)

\* The state !start leaves at minute 0, the interval being set before.
CatchUpInit ==
    /\ program \in {FinalEn, Basic}
    /\ correct_answer = Some(RaceItem)
    /\ current_hints_storage = IF program = FinalEn THEN SevenLines ELSE FiveLines
    /\ current_hints_revealed =
           IF program = FinalEn THEN <<Revealed(1, SevenLines[1])>>
           ELSE <<BasicRevealed(1, FiveLines[1], 1)>>
    /\ is_game_active = TRUE
    /\ hint_timing_minutes \in CatchUpTimings
    /\ last_hint_reveal_time = Some(0)
    /\ user_wins = <<>>
    /\ last_guess_time = <<>>
    /\ wins_file = MissingFile
    /\ state_file =
           IF program = FinalEn
           THEN save_game_state(TRUE, Some(RaceItem), SevenLines,
                                <<Revealed(1, SevenLines[1])>>, Some(0),
                                hint_timing_minutes)
           ELSE MissingFile
    /\ timer = "running"
    /\ timer_pending = None
    /\ inflight = <<>>
    /\ now = 0
    /\ reply = "start:ok"
    /\ member_roles = <<>>

NextCatchUp ==
    \/ program = FinalEn /\ \E ready \in BOOLEAN, channel \in BOOLEAN :
                                hint_timer(ready, channel)
    \/ program = FinalEn /\ hint_timer_resume
    \/ program = FinalEn /\ hint_timer_raises
    \/ program = FinalEn /\ on_ready
    \/ program = FinalEn /\ restart
    \/ program = Basic /\ \E channel \in BOOLEAN : basic_hint_timer(channel)
    \/ program = Basic /\ basic_hint_timer_resume
    \/ program = Basic /\ basic_hint_timer_raises
    \/ program = Basic /\ basic_on_ready
    \/ \E t \in CatchUpInstants : NothingSuspended /\ AdvanceClock(t)

SpecCatchUp == CatchUpInit /\ [][NextCatchUp]_vars

(***************************************************************************)
(* SpecLedger: rounds of two users within one minute, with the commands    *)
(* that set up, start and stop a round, on_ready and restarts in between.  *)
(***************************************************************************)
NextLedger ==
    \/ program = FinalEn /\ set_item_name(RaceItem)
    \/ program = FinalEn /\ set_all_hints(SevenLines)
    \/ program = FinalEn /\ stop_game
    \/ program = FinalEn /\ start_game(TRUE)
    \/ program = FinalEn /\ \E u \in CooldownUsers, g \in CooldownGuesses,
                               dm \in BOOLEAN : guess_item(u, g, dm)
    \/ program = FinalEn /\ \E task \in DOMAIN inflight : guess_item_resume(task)
    \/ program = FinalEn /\ \E task \in DOMAIN inflight : await_raises(task)
    \/ program = FinalEn /\ on_ready
    \/ program = FinalEn /\ restart
    \/ program = Basic /\ basic_set_item_name(RaceItem)
    \/ program = Basic /\ basic_stop_game
    \/ program = Basic /\ \E c \in BasicChannels : basic_start_game(c)
    \/ program = Basic /\ \E u \in CooldownUsers, g \in CooldownGuesses,
                             dm \in BOOLEAN : basic_guess_item(u, g, dm)
    \/ program = Basic /\ \E task \in DOMAIN inflight : basic_guess_item_award(task)
    \/ program = Basic /\ \E task \in DOMAIN inflight : basic_guess_item_resume(task)
    \/ program = Basic /\ \E task \in DOMAIN inflight : basic_await_raises(task)
    \/ program = Basic /\ basic_on_ready
    \/ program = Basic /\ basic_restart

SpecLedger == RaceInit /\ [][NextLedger]_vars

(***************************************************************************)
(* SpecIdle: !guess and !revealhint before a configured round is started,  *)
(* while it runs and after it has ended by a win or by !stop.              *)
(***************************************************************************)
\* The state after !setitem and the hints: a round is configured and none
\* is active.
IdleInit ==
    /\ program \in {FinalEn, Basic}
    /\ correct_answer = Some(RaceItem)
    /\ current_hints_storage = IF program = FinalEn THEN SevenLines ELSE FiveLines
    /\ current_hints_revealed = <<>>
    /\ is_game_active = FALSE
    /\ hint_timing_minutes =
           IF program = FinalEn THEN DEFAULT_HINT_TIMING_MINUTES
           ELSE BASIC_DEFAULT_HINT_TIMING
    /\ last_hint_reveal_time = None
    /\ user_wins = <<>>
    /\ last_guess_time = <<>>
    /\ wins_file = MissingFile
    /\ state_file =
           IF program = FinalEn
           THEN save_game_state(FALSE, Some(RaceItem), SevenLines, <<>>, None,
                                DEFAULT_HINT_TIMING_MINUTES)
           ELSE MissingFile
    /\ timer = "running"
    /\ timer_pending = None
    /\ inflight = <<>>
    /\ now = 0
    /\ reply = "setallhints:ok"
    /\ member_roles = <<>>

IdleGuesses == {RaceItem, <<"b">>}

NextIdle ==
    \/ program = FinalEn /\ start_game(TRUE)
    \/ program = FinalEn /\ stop_game
    \/ program = FinalEn /\ \E u \in SpecUsers, g \in IdleGuesses :
                                guess_item(u, g, FALSE)
    \/ program = FinalEn /\ \E task \in DOMAIN inflight : guess_item_resume(task)
    \/ program = FinalEn /\ reveal_hint_manual(TRUE)
    \/ program = FinalEn /\ \E task \in DOMAIN inflight :
                                reveal_hint_manual_resume(task)
    \/ program = Basic /\ \E c \in BasicChannels : basic_start_game(c)
    \/ program = Basic /\ basic_stop_game
    \/ program = Basic /\ \E u \in SpecUsers, g \in IdleGuesses :
                              basic_guess_item(u, g, FALSE)
    \/ program = Basic /\ \E task \in DOMAIN inflight : basic_guess_item_award(task)
    \/ program = Basic /\ \E task \in DOMAIN inflight : basic_guess_item_resume(task)

SpecIdle == IdleInit /\ [][NextIdle]_vars

(***************************************************************************)
(* Properties                                                              *)
(***************************************************************************)
\* The number of hints of the running program.
RequiredHints == IF program = FinalEn THEN REQUIRED_HINTS ELSE BASIC_REQUIRED_HINTS

\* The item is set and the hints are exactly those numbered 1..N.
Configured ==
    /\ correct_answer # None
    /\ correct_answer[1] # <<>>
    /\ DOMAIN current_hints_storage = 1..RequiredHints

\* A step of !start of either program.
StartStep ==
    \/ program = FinalEn /\ \E channel \in BOOLEAN : start_game(channel)
    \/ program = Basic /\ \E c \in BasicChannels : basic_start_game(c)

\* C1 as stated: with no round active, !start makes the round active if and
\* only if the item is set and the hints are exactly those numbered 1..N.
C1_StartIffConfigured ==
    [][(StartStep /\ ~is_game_active) => (is_game_active' <=> Configured)]_vars

\* C1, amended: with no round active, !start makes the round active if and
\* only if the item is set, the hints are exactly those numbered 1..N and, in
\* guessing_bot_final_en.py, the hint channel is found.
C1_StartIffConfiguredAndChannel ==
    [][/\ \A channel \in BOOLEAN :
            (program = FinalEn /\ start_game(channel) /\ ~is_game_active)
                => (is_game_active' <=> (Configured /\ channel))
       /\ \A c \in BasicChannels :
            (program = Basic /\ basic_start_game(c) /\ ~is_game_active)
                => (is_game_active' <=> Configured)]_vars

\* A configured round of guessing_bot_final_en.py was refused for its channel.
C1_Witness ==
    /\ program = FinalEn
    /\ reply = "start:nochannel"
    /\ Configured
    /\ ~is_game_active

\* C2: right after a start that made the round active, current_hints_revealed
\* holds one entry, hint number 1 with the text configured for hint 1, and
\* last_hint_reveal_time is the time of the start, whatever they held before.
C2_StartRevealsFirstHint ==
    [][(StartStep /\ ~is_game_active /\ is_game_active')
          => /\ Len(current_hints_revealed') = 1
             /\ current_hints_revealed'[1].hint_number = 1
             /\ current_hints_revealed'[1].text = current_hints_storage[1]
             /\ last_hint_reveal_time' = Some(now)]_vars

\* A round was started after the clock had moved and after an earlier round
\* was won.
C2_Witness ==
    /\ reply = "start:ok"
    /\ is_game_active
    /\ now > 0
    /\ user_wins # <<>>
    /\ last_hint_reveal_time = Some(now)

\* C3: in a round the revealed hints are numbered 1, 2, ..., k in this order
\* under any interleaving of timer ticks and manual reveals.
C3_RevealedSequential ==
    is_game_active
        => \A i \in 1..Len(current_hints_revealed) :
               current_hints_revealed[i].hint_number = i

\* The user has an unblocked guess on record less than the cooldown ago.
WithinCooldown(user_id) ==
    \E t1 \in 0..now :
        /\ user_id \in DOMAIN last_guess_time
        /\ last_guess_time[user_id] = t1
        /\ now - t1 < GUESS_COOLDOWN_MINUTES

\* C4: in an active round a guess of a user within the cooldown of their last
\* unblocked guess is rejected without being evaluated and leaves
\* last_guess_time as it is; any other guess is timed at now.
C4_CooldownKeepsFirstTime ==
    [][\A u \in CooldownUsers, g \in CooldownGuesses :
          (is_game_active /\ guess_item(u, g, FALSE))
             => IF WithinCooldown(u)
                THEN /\ reply' = "guess:cooldown"
                     /\ last_guess_time' = last_guess_time
                     /\ user_wins' = user_wins
                     /\ is_game_active'
                ELSE /\ reply' # "guess:cooldown"
                     /\ last_guess_time'[u] = now
                     /\ \A v \in DOMAIN last_guess_time \ {u} :
                           last_guess_time'[v] = last_guess_time[v]]_vars

\* User 1 guessed at 0 and was rejected at 1: the time on record is still 0.
C4_Witness ==
    /\ reply = "guess:cooldown"
    /\ now = 1
    /\ 1 \in DOMAIN last_guess_time
    /\ last_guess_time[1] = 0

\* C5: once a correct guess is processed no round is active and the item, the
\* hints and the revealed hints of the ended round are cleared.
C5_WinClearsRound ==
    reply \in {"guess:reset", "guess:over"}
        => /\ ~is_game_active
           /\ correct_answer = None
           /\ current_hints_storage = <<>>
           /\ current_hints_revealed = <<>>

\* s without its leading and trailing whitespace: what lies from its first to
\* its last character that is not whitespace.
Trimmed(s) ==
    LET ink == {i \in 1..Len(s) : ~IsSpace(s[i])}
    IN  IF ink = {} THEN <<>>
        ELSE SubSeq(s, CHOOSE i \in ink : \A j \in ink : i <= j,
                       CHOOSE i \in ink : \A j \in ink : i >= j)

\* a and b are equal up to the case of their letters.
SameIgnoringCase(a, b) ==
    /\ Len(a) = Len(b)
    /\ \A i \in 1..Len(a) : LowerChar(a[i]) = LowerChar(b[i])

\* C6: in an active round a guess that the cooldown does not block is accepted
\* as correct if and only if, with its leading and trailing whitespace
\* removed, it equals the item up to the case of the letters.
C6_GuessAcceptedIffTrimmedEqual ==
    [][\A u \in SpecUsers, g \in GuessTexts, dm \in BOOLEAN :
          /\ (/\ program = FinalEn
              /\ is_game_active
              /\ ~WithinCooldown(u)
              /\ correct_answer # None
              /\ guess_item(u, g, dm))
                => ((/\ ~is_game_active'
                     /\ DictGet(user_wins', u, 0) = DictGet(user_wins, u, 0) + 1)
                       <=> SameIgnoringCase(Trimmed(g), correct_answer[1]))
          /\ (/\ program = Basic
              /\ is_game_active
              /\ correct_answer # None
              /\ basic_guess_item(u, g, dm))
                => (inflight' # inflight
                       <=> SameIgnoringCase(Trimmed(g), correct_answer[1]))]_vars

\* The item "Ab" was guessed by a text that is not "Ab" itself.
C6_Witness ==
    /\ program = FinalEn
    /\ reply = "guess:win"
    /\ correct_answer = Some(<<"A", "b">>)
    /\ <<"A", "b">> \notin GuessTexts

\* C7: the ledger saved and loaded back is the ledger, with the user ids as
\* integers and the same count for each; user_wins.json on disk loads to the
\* ledger in memory.
C7_LedgerRoundTrip ==
    /\ load_user_wins(save_user_wins(user_wins), <<>>)
           = [raised |-> FALSE, user_wins |-> user_wins]
    /\ wins_file.kind = "json"
           => load_user_wins(wins_file, <<>>)
                  = [raised |-> FALSE, user_wins |-> user_wins]

\* Both users have won and the ledger is on disk.
C7_Witness ==
    /\ DOMAIN user_wins = CooldownUsers
    /\ \E u \in CooldownUsers : user_wins[u] > 1
    /\ wins_file.kind = "json"

\* The variables of the round as one record.
CurrentGameState ==
    GameState(is_game_active, correct_answer, current_hints_storage,
              current_hints_revealed, last_hint_reveal_time, hint_timing_minutes)

\* game_state.json is not what the program writes.
MalformedState(file) ==
    \/ file.kind = "unparseable"
    \/ /\ file.kind = "json"
       /\ \/ \E s \in DOMAIN DictGet(file.data, "current_hints_storage", <<>>) :
                 ~IntParses(s)
          \/ /\ DictGet(file.data, "last_hint_reveal_time", None) # None
             /\ file.data.last_hint_reveal_time[1].fmt # "iso"

\* user_wins.json is not what the program writes.
MalformedWins(file) ==
    \/ file.kind = "unparseable"
    \/ file.kind = "json" /\ \E s \in DOMAIN file.data : ~IntParses(s)

\* C8: once the process has started on a missing or malformed file, no
\* exception has left the loaders, no round is active, the round state is the
\* default one and, for the ledger file, the ledger is empty.
C8_LoadLeavesDefaults ==
    reply \in {"on_ready", "on_ready:ValueError"}
        => /\ reply # "on_ready:ValueError"
           /\ (state_file.kind = "missing" \/ MalformedState(state_file))
                 => CurrentGameState = InitialGameState
           /\ (wins_file.kind = "missing" \/ MalformedWins(wins_file))
                 => user_wins = <<>>

\* The next hint is due: the interval has passed since the last reveal.
Due ==
    \E t \in 0..now :
        /\ last_hint_reveal_time = Some(t)
        /\ now - t >= hint_timing_minutes

\* A round is active with fewer than N hints revealed.
RoundOpen == is_game_active /\ Len(current_hints_revealed) < RequiredHints

\* The number of the hint to reveal next.
NextHintNumber == Len(current_hints_revealed) + 1

\* An iteration of the timer begins.
TickStep ==
    \/ program = FinalEn
         /\ \E ready \in BOOLEAN, channel \in BOOLEAN : hint_timer(ready, channel)
    \/ program = Basic /\ \E channel \in BOOLEAN : basic_hint_timer(channel)

\* C9 as stated: in an active round with fewer than N hints revealed a tick
\* reveals the next hint if and only if the interval has passed; a tick before
\* that leaves the revealed hints and the time of the last reveal unchanged.
C9_TickRevealsIffDue ==
    [][(RoundOpen /\ TickStep)
          => /\ timer_pending' # None <=> Due
             /\ ~Due => UNCHANGED <<current_hints_revealed,
                                    last_hint_reveal_time>>]_vars

\* C9, amended: in an active round with fewer than N hints revealed a tick
\* sends the next hint if and only if the interval has passed, the hint
\* channel is found and, in guessing_bot_final_en.py, the bot is ready; when
\* the send returns the hint sent is appended, the time of the last reveal is
\* the time of the tick and guessing_bot_final_en.py saves the state; a tick
\* that sends nothing, or whose send raises, leaves the revealed hints and the
\* time of the last reveal unchanged.
C9_TickSendsIffDueAndAppends ==
    [][/\ \A ready \in BOOLEAN, channel \in BOOLEAN :
            (program = FinalEn /\ RoundOpen /\ hint_timer(ready, channel))
                => /\ timer_pending' # None <=> (Due /\ ready /\ channel)
                   /\ timer_pending' # None
                         => /\ timer_pending'[1].next_hint_number = NextHintNumber
                            /\ timer_pending'[1].hint_text
                                   = current_hints_storage[NextHintNumber]
                            /\ timer_pending'[1].now = now
                   /\ UNCHANGED <<current_hints_revealed, last_hint_reveal_time,
                                  state_file>>
       /\ \A channel \in BOOLEAN :
            (program = Basic /\ RoundOpen /\ basic_hint_timer(channel))
                => /\ timer_pending' # None <=> (Due /\ channel)
                   /\ timer_pending' # None
                         => /\ timer_pending'[1].next_hint_number = NextHintNumber
                            /\ timer_pending'[1].hint_text
                                   = current_hints_storage[NextHintNumber]
                            /\ timer_pending'[1].now = now
                   /\ UNCHANGED <<current_hints_revealed, last_hint_reveal_time>>
       /\ (timer_pending # None
             /\ \/ program = FinalEn /\ hint_timer_resume
                \/ program = Basic /\ basic_hint_timer_resume)
                => /\ Len(current_hints_revealed') = Len(current_hints_revealed) + 1
                   /\ SubSeq(current_hints_revealed', 1, Len(current_hints_revealed))
                          = current_hints_revealed
                   /\ current_hints_revealed'[NextHintNumber].hint_number
                          = timer_pending[1].next_hint_number
                   /\ current_hints_revealed'[NextHintNumber].text
                          = timer_pending[1].hint_text
                   /\ last_hint_reveal_time' = Some(timer_pending[1].now)
                   /\ program = FinalEn
                         => /\ state_file'.kind = "json"
                            /\ load_game_state(state_file', InitialGameState)
                                   = [raised |-> FALSE,
                                      state |-> GameState(is_game_active',
                                                    correct_answer',
                                                    current_hints_storage',
                                                    current_hints_revealed',
                                                    last_hint_reveal_time',
                                                    hint_timing_minutes')]
       /\ (timer_pending # None
             /\ \/ program = FinalEn /\ hint_timer_raises
                \/ program = Basic /\ basic_hint_timer_raises)
                => UNCHANGED <<current_hints_revealed, last_hint_reveal_time>>]_vars

\* The second hint was revealed by a tick at minute 1, the interval being 1.
C9_Witness ==
    /\ reply = "tick:revealed"
    /\ Len(current_hints_revealed) = 2
    /\ current_hints_revealed[2].hint_number = 2
    /\ last_hint_reveal_time = Some(1)
    /\ hint_timing_minutes = 1

\* C10: in guessing_bot_final_en.py, whenever the round is active the item is
\* set, the hint storage holds N hints and a hint is revealed.
C10_ActiveRoundComplete ==
    (program = FinalEn /\ is_game_active)
        => /\ correct_answer # None
           /\ correct_answer[1] # <<>>
           /\ Cardinality(DOMAIN current_hints_storage) = REQUIRED_HINTS
           /\ current_hints_revealed # <<>>

\* C11: right after a successful !start no user has an entry in the cooldown
\* table.
C11_StartClearsCooldown ==
    reply = "start:ok" => last_guess_time = <<>>

\* C12: while the round stays active, the item, the hints and the interval
\* do not change; a configuration command in an active round is such a step.
C12_ActiveRoundImmutable ==
    [][(is_game_active /\ is_game_active')
          => UNCHANGED <<correct_answer, current_hints_storage,
                         hint_timing_minutes>>]_vars

\* A step of !stop of either program.
StopStep ==
    \/ program = FinalEn /\ stop_game
    \/ program = Basic /\ basic_stop_game

\* The game variables after the step, as one record.
GameStateAfter ==
    GameState(is_game_active', correct_answer', current_hints_storage',
              current_hints_revealed', last_hint_reveal_time',
              hint_timing_minutes')

\* C13: after !stop, from any state, no round is active, no hint is revealed,
\* the time of the last reveal is unset, no win is credited and, in
\* guessing_bot_final_en.py, game_state.json loads to the state in memory.
C13_StopResets ==
    [][StopStep
          => /\ ~is_game_active'
             /\ current_hints_revealed' = <<>>
             /\ last_hint_reveal_time' = None
             /\ user_wins' = user_wins
             /\ wins_file' = wins_file
             /\ program = FinalEn
                   => load_game_state(state_file', InitialGameState).state
                          = GameStateAfter]_vars

\* The correct guess of user_id in a direct message to
\* guessing_bot_final_en.py: award_winner_roles raises AttributeError at
\* member.guild.
FinalRewardRaises(user_id) ==
    /\ program = FinalEn
    /\ \E g \in SpecGuesses : guess_item(user_id, g, TRUE)
    /\ reply' = "guess:AttributeError"

\* The message guessing_bot_final_en.py sends after the win of user_id
\* cannot be sent.
FinalNoticeRaises(user_id) ==
    /\ program = FinalEn
    /\ Task("guess", user_id, 0, <<>>) \in DOMAIN inflight
    /\ await_raises(Task("guess", user_id, 0, <<>>))

\* award_winner_roles of guessing_bot.py raises AttributeError at
\* member.guild for the winner user_id of a direct message.
BasicRewardRaises(user_id) ==
    /\ program = Basic
    /\ BasicTask("guess:congratulate", user_id, TRUE) \in DOMAIN inflight
    /\ basic_guess_item_award(BasicTask("guess:congratulate", user_id, TRUE))

\* "await member.send(...)" of award_winner_roles of guessing_bot.py raises
\* for the winner user_id.
BasicNoticeRaises(user_id) ==
    /\ program = Basic
    /\ BasicTask("guess:award", user_id, FALSE) \in DOMAIN inflight
    /\ basic_await_raises(BasicTask("guess:award", user_id, FALSE))

\* The win of user_id is counted in the step and saved.
WinCounted(user_id) ==
    /\ user_wins' = DictSet(user_wins, user_id, DictGet(user_wins, user_id, 0) + 1)
    /\ wins_file' = save_user_wins(user_wins')

\* C14: when the reward of a correct guess fails, the winner's win is
\* counted once and saved and the round has ended: a failure in the step
\* that counts the win leaves the win counted and the round ended, a later
\* failure keeps the win and leaves the round ended.
C14_RewardFailureKeepsWin ==
    [][\A u \in SpecUsers :
          /\ FinalRewardRaises(u) => (WinCounted(u) /\ ~is_game_active')
          /\ FinalNoticeRaises(u)
                => /\ UNCHANGED <<user_wins, wins_file, is_game_active>>
                   /\ u \in DOMAIN user_wins
                   /\ wins_file = save_user_wins(user_wins)
          /\ BasicRewardRaises(u) => (WinCounted(u) /\ ~is_game_active')
          /\ BasicNoticeRaises(u)
                => /\ UNCHANGED <<user_wins, wins_file>>
                   /\ u \in DOMAIN user_wins
                   /\ wins_file = save_user_wins(user_wins)
                   /\ ~is_game_active']_vars

\* The levels of WINNER_ROLES_CONFIG a winner with w wins has reached.
LevelsReached(w) == {t \in DOMAIN WINNER_ROLES_CONFIG : t <= w}

\* The reward of the largest level t <= w, none below the smallest level.
TierFor(w) ==
    IF LevelsReached(w) = {} THEN "award:none"
    ELSE WINNER_ROLES_CONFIG[CHOOSE t \in LevelsReached(w) :
                                 \A s \in LevelsReached(w) : s <= t]

\* A step that selects the role of the winner user_id.
AwardStep(user_id) ==
    \/ program = FinalEn /\ award_winner_roles(user_id)
    \/ program = Basic /\ basic_award_winner_roles(user_id)

\* C15: for every number of wins w, the role selected on a win is the reward
\* of the largest level t of {1, 5, 10, 25, 50, 100} with t <= w, and none
\* when w is below the smallest level.
C15_TierIsLargestLevelReached ==
    [][\A u \in TierUsers :
          AwardStep(u) => reply' = TierFor(DictGet(user_wins', u, 0))]_vars

\* A winner with 7 wins was given the role of level 5.
C15_Witness ==
    /\ 1 \in DOMAIN user_wins
    /\ user_wins[1] = 7
    /\ reply = WINNER_ROLES_CONFIG[5]

\* C16: between operations, a restart of guessing_bot_final_en.py would load
\* from game_state.json the round state that is in memory.
C16_RestartResumesState ==
    (program = FinalEn /\ NothingSuspended)
        => load_game_state(state_file, InitialGameState).state = CurrentGameState

\* A step of !status, !wins (!leaderboard) or !mywins.
InspectStep ==
    \/ program = FinalEn /\ game_status
    \/ program = FinalEn /\ show_leaderboard
    \/ program = FinalEn /\ \E u \in SpecUsers : show_my_wins(u)
    \/ program = Basic /\ basic_show_leaderboard

\* C18: the commands that show the state leave the round state, the
\* cooldown table, the win ledger and the two files as they are.
C18_InspectionReadOnly ==
    [][InspectStep
          => UNCHANGED <<game_vars, last_guess_time, user_wins, wins_file,
                         state_file, timer>>]_vars

\* !status has answered in an active round, with a win in the ledger and a
\* guess in the cooldown table.
C18_Witness ==
    /\ reply = "status"
    /\ is_game_active
    /\ user_wins # <<>>
    /\ last_guess_time # <<>>

\* The revealed hints stay empty and the time of the last reveal unset.
RoundStaysCleared ==
    /\ current_hints_revealed = <<>> => current_hints_revealed' = <<>>
    /\ last_hint_reveal_time = None => last_hint_reveal_time' = None

\* A reveal resumes after its message is sent.
RevealResumes ==
    \/ program = FinalEn /\ hint_timer_resume
    \/ program = FinalEn /\ \E task \in DOMAIN inflight : reveal_hint_manual_resume(task)
    \/ program = Basic /\ basic_hint_timer_resume

\* C19: a tick or a manual reveal that resumes after the round has ended
\* appends no hint, sets no time of the last reveal and saves nothing; after
\* the end the revealed hints stay empty and the time of the last reveal
\* stays unset until the next !start.
C19_EndIsImmediate ==
    [][/\ (RevealResumes /\ ~is_game_active)
             => UNCHANGED <<current_hints_revealed, last_hint_reveal_time,
                            state_file>>
       /\ (~is_game_active /\ ~StartStep) => RoundStaysCleared]_vars

\* The wins credited in all.
TotalWins == BagSum(user_wins, DOMAIN user_wins)

\* C20: the one round of SpecRace credits at most one win, however the
\* handlers of the correct guesses are interleaved.
C20_OneWinPerRound == TotalWins <= 1

\* C21: while a round is active with fewer than N hints revealed, the
\* hint_timer loop is running and has not been told to stop, so that a due
\* hint is revealed at the next tick.
C21_TickKeepsRunning == RoundOpen => timer = "running"

\* C22: the hint_timer loop appends no hint sooner than the interval after
\* a manual reveal: when !revealhint has just revealed a hint, a tick that
\* resumes appends one only if the interval has passed since.
C22_ManualRevealDelaysTick ==
    [][(program = FinalEn /\ reply = "revealhint:ok" /\ hint_timer_resume)
          => /\ last_hint_reveal_time # None
             /\ now >= last_hint_reveal_time[1] + hint_timing_minutes
             /\ last_hint_reveal_time'[1] >= last_hint_reveal_time[1]]_vars

\* The send of an iteration of the hint_timer loop has returned.
TickResumes ==
    \/ program = FinalEn /\ hint_timer_resume
    \/ program = Basic /\ basic_hint_timer_resume

\* C23: an iteration of the hint_timer loop reveals at most one hint, however
\* many intervals have passed since the last reveal: it appends nothing before
\* its send, one hint after it, and takes its own time as the time of the
\* last reveal, so that the reveal of the loop that follows one at t comes at
\* t + interval or later.
C23_TickCatchesUpByOne ==
    [][/\ TickStep => UNCHANGED <<current_hints_revealed, last_hint_reveal_time>>
       /\ TickResumes
             => /\ Len(current_hints_revealed') = Len(current_hints_revealed) + 1
                /\ last_hint_reveal_time # None
                /\ now >= last_hint_reveal_time[1] + hint_timing_minutes
                /\ last_hint_reveal_time' = Some(now)]_vars

\* A tick that came two intervals or more after the first hint has revealed
\* the second hint only.
C23_Witness ==
    /\ reply = "tick:revealed"
    /\ Len(current_hints_revealed) = 2
    /\ last_hint_reveal_time # None
    /\ last_hint_reveal_time[1] >= 2 * hint_timing_minutes

\* C24: never more than N hints are revealed, whichever way the hint_timer
\* loop and !revealhint interleave.
C24_AtMostNRevealed == Len(current_hints_revealed) <= RequiredHints

\* The hint storage holds fewer than N hints.
StorageIncomplete == Cardinality(DOMAIN current_hints_storage) < RequiredHints

\* C25: an iteration of the hint_timer loop that finds no round active, or
\* fewer than N hints in the storage, or no time of a last reveal, sends
\* nothing and changes neither the round, nor the cooldown map, nor the
\* ledger, nor the two files.
C25_IdleTickChangesNothing ==
    [][(TickStep /\ (~is_game_active \/ StorageIncomplete
                       \/ last_hint_reveal_time = None))
          => /\ timer_pending' = None
             /\ UNCHANGED <<game_vars, last_guess_time, user_wins, wins_file,
                            state_file>>]_vars

\* A tick has run with no round active, the hints being configured and the
\* interval having passed since the time of the last reveal.
C25_Witness ==
    /\ reply = "tick"
    /\ ~is_game_active
    /\ ~StorageIncomplete
    /\ Due

\* The guess equals the item up to case and outer whitespace.
CorrectGuess(g) ==
    /\ correct_answer # None
    /\ SameIgnoringCase(Trimmed(g), correct_answer[1])

\* last_guess_time with the entry of user u set to time t and every other
\* entry as it is.
GuessTimed(u, t) ==
    [v \in DOMAIN last_guess_time \cup {u} |->
        IF v = u THEN t ELSE last_guess_time[v]]

\* C26: in an active round a guess that the cooldown does not block sets
\* last_guess_time of the guesser to the time of the guess, whether it is
\* correct or not, and leaves the entries of the other users; an incorrect one
\* changes nothing else: not the round, the ledger, the files or the timer.
C26_GuessRecordsTimeOnly ==
    [][\A u \in CooldownUsers, g \in CooldownGuesses :
          (is_game_active /\ ~WithinCooldown(u) /\ guess_item(u, g, FALSE))
             => /\ last_guess_time' = GuessTimed(u, now)
                /\ ~CorrectGuess(g)
                      => UNCHANGED <<game_vars, user_wins, wins_file, state_file,
                                     timer, timer_pending, inflight, now>>]_vars

\* User 2 has guessed wrong after user 1: both times are on record and the
\* round goes on.
C26_Witness ==
    /\ reply = "guess:incorrect"
    /\ is_game_active
    /\ DOMAIN last_guess_time = CooldownUsers
    /\ last_guess_time[2] = now
    /\ last_guess_time[1] < now

\* The step counts a win of user u: in guessing_bot_final_en.py the step of
\* !guess with a correct guess of u that the cooldown does not block; in
\* guessing_bot.py the step of award_winner_roles in the !guess of u that was
\* found correct.
CreditStep(u) ==
    \/ /\ program = FinalEn
       /\ is_game_active
       /\ ~WithinCooldown(u)
       /\ \E g \in CooldownGuesses, dm \in BOOLEAN :
              CorrectGuess(g) /\ guess_item(u, g, dm)
    \/ /\ program = Basic
       /\ \E task \in DOMAIN inflight :
              /\ task.op = "guess:congratulate"
              /\ task.user = u
              /\ basic_guess_item_award(task)

\* The ledger with one more win for user u and the counts of the others.
Credited(u) ==
    [v \in DOMAIN user_wins \cup {u} |->
        IF v = u THEN (IF u \in DOMAIN user_wins THEN user_wins[u] ELSE 0) + 1
        ELSE user_wins[v]]

\* C27: the ledger changes only in the step of a correct guess, by one more
\* win for the guesser and nothing else; setting up, starting and stopping a
\* round, wrong and rejected guesses, the end of a handler, on_ready and a
\* restart leave every count as it is.
C27_LedgerOnlyGrowsByWins ==
    [][user_wins' # user_wins
          => \E u \in CooldownUsers : CreditStep(u) /\ user_wins' = Credited(u)]_vars

\* The ledger with wins of both users was loaded by on_ready.
C27_Witness ==
    /\ reply = "on_ready"
    /\ DOMAIN user_wins = CooldownUsers
    /\ user_wins[1] + user_wins[2] > 2

\* C28: in guessing_bot_final_en.py, the round state that save_game_state()
\* writes is the round state that load_game_state() reads back, whatever the
\* variables held before the load: every variable of the round, the integer
\* keys of the hints and the time of the last reveal included.
C28_GameStateRoundTrip ==
    program = FinalEn
        => load_game_state(save_game_state(is_game_active, correct_answer,
                                           current_hints_storage,
                                           current_hints_revealed,
                                           last_hint_reveal_time,
                                           hint_timing_minutes),
                           InitialGameState)
               = [raised |-> FALSE, state |-> CurrentGameState]

\* A round started after minute 0 is on disk as it is in memory.
C28_Witness ==
    /\ program = FinalEn
    /\ is_game_active
    /\ current_hints_revealed # <<>>
    /\ last_hint_reveal_time # None
    /\ last_hint_reveal_time[1] > 0
    /\ state_file = save_game_state(is_game_active, correct_answer,
                                    current_hints_storage, current_hints_revealed,
                                    last_hint_reveal_time, hint_timing_minutes)

\* C29: in guessing_bot_final_en.py, when a correct guess has ended the round
\* in memory and its win is in user_wins.json, a restart does not make the
\* round active again.
C29_NoResumeAfterWin ==
    [][(/\ program = FinalEn
        /\ ~is_game_active
        /\ user_wins # <<>>
        /\ wins_file = save_user_wins(user_wins)
        /\ restart) => ~is_game_active']_vars

\* C30: an item that !setitem has just accepted is still set when a handler
\* of !guess that was suspended at that time has finished.
C30_AcceptedItemStays ==
    [][\A task \in DOMAIN inflight :
          (program = FinalEn /\ reply = "setitem:ok" /\ guess_item_resume(task))
             => correct_answer' = correct_answer]_vars

\* award_winner_roles grants and revokes the roles of the winner user_id.
RolesUpdateStep(user_id, found, raises) ==
    \/ program = FinalEn /\ award_winner_roles_update(user_id, found, raises)
    \/ program = Basic /\ basic_award_winner_roles_update(user_id, found, raises)

\* The roles user_id holds in the guild.
RolesOf(roles, user_id) == IF user_id \in DOMAIN roles THEN roles[user_id] ELSE {}

\* C31: when award_winner_roles has run for a winner, the role selected being
\* found in the guild and no call to Discord failing, the winner holds one
\* role of WINNER_ROLES_CONFIG, the role of the largest level reached with the
\* new number of wins, and the roles held that are not in WINNER_ROLES_CONFIG
\* are the ones held before.
C31_OneTierRoleHeld ==
    [][\A u \in TierUsers :
          RolesUpdateStep(u, TRUE, "none")
             => /\ RolesOf(member_roles', u) \cap all_winner_role_ids
                       = {TierFor(DictGet(user_wins, u, 0))}
                /\ RolesOf(member_roles', u) \ all_winner_role_ids
                       = RolesOf(member_roles, u) \ all_winner_role_ids]_vars

\* A winner with 5 wins holds the role of level 5 and the role that is not a
\* reward after the roles were updated.
C31_Witness ==
    /\ reply = "award:done"
    /\ 1 \in DOMAIN user_wins
    /\ user_wins[1] = 5
    /\ member_roles = [u \in TierUsers |-> {WINNER_ROLES_CONFIG[5], OtherRole}]

\* The lines of a text that hold more than whitespace, in their order and
\* without the whitespace around them.
NonEmptyLines(lines) ==
    LET kept == SelectSeq(lines, LAMBDA l : Trimmed(l) # <<>>)
    IN  [i \in 1..Len(kept) |-> Trimmed(kept[i])]

\* C32 as stated: !setallhints succeeds only with exactly N non-empty lines
\* and then the hint storage is those lines under the keys 1..N in the order
\* given; with another number of non-empty lines it answers that the count is
\* wrong and leaves the hint storage as it is.
C32_SetAllHintsExactlyN ==
    [][\A lines \in ConfigAllHints :
          (program = FinalEn /\ set_all_hints(lines))
             => /\ reply' = "setallhints:ok"
                   => /\ Len(NonEmptyLines(lines)) = REQUIRED_HINTS
                      /\ DOMAIN current_hints_storage' = 1..REQUIRED_HINTS
                      /\ \A i \in 1..REQUIRED_HINTS :
                            current_hints_storage'[i] = NonEmptyLines(lines)[i]
                /\ Len(NonEmptyLines(lines)) # REQUIRED_HINTS
                   => /\ reply' = "setallhints:count"
                      /\ UNCHANGED current_hints_storage]_vars

\* C32, amended: as above, but with another number of non-empty lines the
\* answer is that the count is wrong when no round is active, and that the
\* hints cannot be modified when one is; the hint storage stays as it is.
C32_SetAllHintsExactlyNOrLocked ==
    [][\A lines \in ConfigAllHints :
          (program = FinalEn /\ set_all_hints(lines))
             => /\ reply' = "setallhints:ok"
                   => /\ Len(NonEmptyLines(lines)) = REQUIRED_HINTS
                      /\ DOMAIN current_hints_storage' = 1..REQUIRED_HINTS
                      /\ \A i \in 1..REQUIRED_HINTS :
                            current_hints_storage'[i] = NonEmptyLines(lines)[i]
                /\ Len(NonEmptyLines(lines)) # REQUIRED_HINTS
                   => /\ reply' = IF is_game_active THEN "setallhints:locked"
                                  ELSE "setallhints:count"
                      /\ UNCHANGED current_hints_storage]_vars

\* !setallhints has set the seven hints.
C32_Witness ==
    /\ program = FinalEn
    /\ reply = "setallhints:ok"
    /\ current_hints_storage = SevenLines

\* A step of !sethint <n> <text> of either program.
SetHintStep(n, text) ==
    \/ program = FinalEn /\ set_hint(n, text)
    \/ program = Basic /\ basic_set_hint(n, text)

\* The hint storage with text, trimmed, as hint n.
HintSet(n, text) ==
    [k \in DOMAIN current_hints_storage \cup {n} |->
        IF k = n THEN Trimmed(text) ELSE current_hints_storage[k]]

\* The numbers and texts !sethint is given.
SetHintNumbers == ConfigHintNumbers \cup BasicConfigHintNumbers

\* C33 as stated: !sethint with a number outside 1..N is rejected and leaves
\* the hint storage as it is; with a number in 1..N it sets the hint, whether
\* the item is set or not; the keys of the hint storage are within 1..N.
C33_HintKeysInRange ==
    /\ [](DOMAIN current_hints_storage \subseteq 1..RequiredHints)
    /\ [][\A n \in SetHintNumbers, text \in ConfigHintTexts :
             SetHintStep(n, text)
                => IF n \in 1..RequiredHints
                   THEN /\ reply' \in {"sethint:ok", "sethint:all"}
                        /\ current_hints_storage' = HintSet(n, text)
                   ELSE /\ reply' \in {"sethint:range", "sethint:locked"}
                        /\ UNCHANGED current_hints_storage]_vars

\* C33, amended: as above, but a number in 1..N sets the hint when no round
\* is active; while a round is active every !sethint is rejected and leaves
\* the hint storage as it is.
C33_HintKeysInRangeWhenIdle ==
    /\ [](DOMAIN current_hints_storage \subseteq 1..RequiredHints)
    /\ [][\A n \in SetHintNumbers, text \in ConfigHintTexts :
             SetHintStep(n, text)
                => IF n \in 1..RequiredHints /\ ~is_game_active
                   THEN /\ reply' \in {"sethint:ok", "sethint:all"}
                        /\ current_hints_storage' = HintSet(n, text)
                   ELSE /\ reply' \in {"sethint:range", "sethint:locked"}
                        /\ UNCHANGED current_hints_storage]_vars

\* Hint 1 was set with no item set.
C33_Witness ==
    /\ reply = "sethint:ok"
    /\ correct_answer = None
    /\ 1 \in DOMAIN current_hints_storage

\* A step of !sethinttiming <minutes> of either program.
SetHintTimingStep(minutes) ==
    \/ program = FinalEn /\ set_hint_timing(minutes)
    \/ program = Basic /\ basic_set_hint_timing(minutes)

GuessStep ==
    \E u \in SpecUsers, g \in IdleGuesses, dm \in BOOLEAN :
        \/ program = FinalEn /\ guess_item(u, g, dm)
        \/ program = Basic /\ basic_guess_item(u, g, dm)

\* A step of !revealhint.
ManualRevealStep ==
    program = FinalEn /\ \E channel \in BOOLEAN : reveal_hint_manual(channel)

\* The round, the cooldowns, the wins and both files stay as they are.
NothingRecorded ==
    UNCHANGED <<game_vars, last_guess_time, user_wins, wins_file, state_file>>

\* C35: while no round is active, !guess and !revealhint are answered with
\* "no active game" and change nothing: no time of guess is recorded, and the
\* round, the wins, user_wins.json and game_state.json stay as they are.
C35_RejectedWhenIdle ==
    [][~is_game_active
          => /\ GuessStep => (reply' = "guess:noactive" /\ NothingRecorded)
             /\ ManualRevealStep
                  => (reply' = "revealhint:noactive" /\ NothingRecorded)]_vars

\* A guess is rejected after the round was won.
C35_Witness ==
    /\ reply = "guess:noactive"
    /\ ~is_game_active
    /\ user_wins # <<>>

\* !start has answered that it cannot start a round.
StartFailed ==
    reply' \in {"start:already", "start:incomplete", "start:nochannel"}

\* C36: a !start that fails, because a round is active, the item or the
\* hints are incomplete or the hint channel is not found, leaves
\* is_game_active, the revealed hints and the time of the last reveal as they
\* were before the command.
C36_FailedStartChangesNothing ==
    [][(StartStep /\ StartFailed)
          => UNCHANGED <<is_game_active, current_hints_revealed,
                         last_hint_reveal_time>>]_vars

====
